---- MODULE Spec2Model ----
(***************************************************************************)
(* Data request workflow of datarequest.py: the status graph, the          *)
(* permission check, the provenance log, the reviewer bookkeeping, the     *)
(* workflow API calls and the review period expiration sweep.              *)
(***************************************************************************)
EXTENDS Integers, Sequences, FiniteSets, TLC

(***************************************************************************)
(* Bounds of the model.                                                    *)
(***************************************************************************)
\* requests the store has room for
MaxRequests == 2
\* requests created in the life cycle specification
MaxNew == 1
MaxDays == 2
MaxMisuse == 1
MaxAssignees == 1

SecondsPerDay == 86400

RequestIds == 1..MaxRequests
NoRequest == 0

(***************************************************************************)
(* Principals and the group directory (external collaborator).             *)
(***************************************************************************)
Principals == {"res", "pm", "dm", "m1", "m2"}

\* A user who is project manager and data manager at once. This user makes
\* no workflow calls; the read-only functions are called for them as well.
Supervisor == "sup"
Callers == Principals \cup {Supervisor}

GROUP_PM == {"pm", Supervisor}
GROUP_DM == {"dm", Supervisor}
GROUP_DAC == {"m1", "m2"}

\* The job that runs the expiration sweep.
Sweeper == "rods"
Procs == Principals \cup {Sweeper}

(***************************************************************************)
(* class status(Enum)                                                      *)
(***************************************************************************)
\* A variant without the statuses of the data access only path.
status_without_dao ==
    {"IN_SUBMISSION", "DRAFT", "PENDING_ATTACHMENTS", "SUBMITTED",
     "PRELIMINARY_ACCEPT", "PRELIMINARY_REJECT", "PRELIMINARY_RESUBMIT",
     "DATAMANAGER_ACCEPT", "DATAMANAGER_REJECT", "DATAMANAGER_RESUBMIT",
     "UNDER_REVIEW", "REJECTED_AFTER_DATAMANAGER_REVIEW",
     "RESUBMIT_AFTER_DATAMANAGER_REVIEW", "REVIEWED", "APPROVED", "REJECTED",
     "RESUBMIT", "RESUBMITTED", "PREREGISTRATION_SUBMITTED",
     "PREREGISTRATION_CONFIRMED", "DTA_READY", "DTA_SIGNED", "DATA_READY"}

status ==
    {"IN_SUBMISSION", "DRAFT", "DAO_SUBMITTED", "PENDING_ATTACHMENTS", "SUBMITTED",
     "PRELIMINARY_ACCEPT", "PRELIMINARY_REJECT", "PRELIMINARY_RESUBMIT",
     "DATAMANAGER_ACCEPT", "DATAMANAGER_REJECT", "DATAMANAGER_RESUBMIT",
     "UNDER_REVIEW", "REJECTED_AFTER_DATAMANAGER_REVIEW",
     "RESUBMIT_AFTER_DATAMANAGER_REVIEW", "REVIEWED", "APPROVED", "REJECTED",
     "RESUBMIT", "RESUBMITTED", "PREREGISTRATION_SUBMITTED",
     "PREREGISTRATION_CONFIRMED", "DAO_APPROVED", "DTA_READY", "DTA_SIGNED",
     "DATA_READY"}

\* A table with a way back from SUBMITTED to DRAFT.
status_transitions_cyclic ==
    << <<"IN_SUBMISSION", "DRAFT">>,
       <<"IN_SUBMISSION", "SUBMITTED">>,
       <<"DRAFT", "SUBMITTED">>,
       <<"SUBMITTED", "DRAFT">>,
       <<"SUBMITTED", "PRELIMINARY_ACCEPT">> >>

(***************************************************************************)
(* status_transitions: the list of (source, destination) pairs, in the     *)
(* order of the source.                                                    *)
(***************************************************************************)
status_transitions ==
    << <<"IN_SUBMISSION", "DRAFT">>,
       <<"IN_SUBMISSION", "PENDING_ATTACHMENTS">>,
       <<"IN_SUBMISSION", "DAO_SUBMITTED">>,
       <<"IN_SUBMISSION", "SUBMITTED">>,
       <<"DRAFT", "PENDING_ATTACHMENTS">>,
       <<"DRAFT", "DAO_SUBMITTED">>,
       <<"DRAFT", "SUBMITTED">>,
       <<"PENDING_ATTACHMENTS", "SUBMITTED">>,
       <<"DAO_SUBMITTED", "DAO_APPROVED">>,
       <<"DAO_SUBMITTED", "REJECTED">>,
       <<"DAO_SUBMITTED", "RESUBMIT">>,
       <<"SUBMITTED", "PRELIMINARY_ACCEPT">>,
       <<"SUBMITTED", "PRELIMINARY_REJECT">>,
       <<"SUBMITTED", "PRELIMINARY_RESUBMIT">>,
       <<"PRELIMINARY_ACCEPT", "DATAMANAGER_ACCEPT">>,
       <<"PRELIMINARY_ACCEPT", "DATAMANAGER_REJECT">>,
       <<"PRELIMINARY_ACCEPT", "DATAMANAGER_RESUBMIT">>,
       <<"DATAMANAGER_ACCEPT", "UNDER_REVIEW">>,
       <<"DATAMANAGER_ACCEPT", "REJECTED_AFTER_DATAMANAGER_REVIEW">>,
       <<"DATAMANAGER_ACCEPT", "RESUBMIT_AFTER_DATAMANAGER_REVIEW">>,
       <<"DATAMANAGER_REJECT", "UNDER_REVIEW">>,
       <<"DATAMANAGER_REJECT", "REJECTED_AFTER_DATAMANAGER_REVIEW">>,
       <<"DATAMANAGER_REJECT", "RESUBMIT_AFTER_DATAMANAGER_REVIEW">>,
       <<"DATAMANAGER_RESUBMIT", "UNDER_REVIEW">>,
       <<"DATAMANAGER_RESUBMIT", "REJECTED_AFTER_DATAMANAGER_REVIEW">>,
       <<"DATAMANAGER_RESUBMIT", "RESUBMIT_AFTER_DATAMANAGER_REVIEW">>,
       <<"UNDER_REVIEW", "REVIEWED">>,
       <<"REVIEWED", "APPROVED">>,
       <<"REVIEWED", "REJECTED">>,
       <<"REVIEWED", "RESUBMIT">>,
       <<"RESUBMIT", "RESUBMITTED">>,
       <<"PRELIMINARY_RESUBMIT", "RESUBMITTED">>,
       <<"RESUBMIT_AFTER_DATAMANAGER_REVIEW", "RESUBMITTED">>,
       <<"APPROVED", "PREREGISTRATION_SUBMITTED">>,
       <<"PREREGISTRATION_SUBMITTED", "PREREGISTRATION_CONFIRMED">>,
       <<"PREREGISTRATION_CONFIRMED", "DTA_READY">>,
       <<"DAO_APPROVED", "DTA_READY">>,
       <<"DTA_READY", "DTA_SIGNED">>,
       <<"DTA_SIGNED", "DATA_READY">> >>

\* A variant of the membership test that also accepts every pair (s, s).
status_transition_allowed_reflexive(current_status, new_status) ==
    \/ current_status = new_status
    \/ \E i \in DOMAIN status_transitions :
          status_transitions[i] = <<current_status, new_status>>

\* A variant that looks for the new status among the destinations only.
status_transition_allowed_destination(current_status, new_status) ==
    \E i \in DOMAIN status_transitions : status_transitions[i][2] = new_status

\* transition in status_transitions
status_transition_allowed(current_status, new_status) ==
    \E i \in DOMAIN status_transitions :
        status_transitions[i] = <<current_status, new_status>>

(***************************************************************************)
(* Document names.                                                         *)
(***************************************************************************)
DATAREQUEST == "datarequest"
PR_REVIEW == "preliminary_review"
DM_REVIEW == "datamanager_review"
REVIEW == "review"
ASSIGNMENT == "assignment"
EVALUATION == "evaluation"
APPROVAL_CONDITIONS == "approval_conditions"
PREREGISTRATION == "preregistration"
FEEDBACK == "feedback"

DAO_PURPOSE == "Analyses for data assessment only (results will not be published)"
OTHER_PURPOSE == "Analyses in order to publish"
Purposes == {DAO_PURPOSE, OTHER_PURPOSE}

(***************************************************************************)
(* State: the store of data request collections.                           *)
(*   data[r]              datarequest.json (NoData: no collection r)       *)
(*   statusAvu[r]         the rows of the status attribute                 *)
(*   assignedForReview[r] the rows of the assignedForReview attribute      *)
(*   reviewedBy[r]        the rows of the reviewedBy attribute             *)
(*   endOfReviewPeriod[r] the endOfReviewPeriod attribute (NoDeadline)     *)
(*   provenance[r]        provenance.json: status -> timestamp             *)
(*   docs[r]              the stage documents on disk                      *)
(*   now                  the clock, in seconds                            *)
(*   pc, local            position and local variables of a call in        *)
(*                        progress, per principal and for the sweep job    *)
(*   args, ret            arguments and result of the last direct call of  *)
(*                        a function                                       *)
(*   misuse               number of calls made so far although the         *)
(*                        permission check of the call returned an error   *)
(***************************************************************************)
VARIABLES data, statusAvu, assignedForReview, reviewedBy, endOfReviewPeriod,
          provenance, docs, now, pc, local, ret, args, misuse

store == <<data, statusAvu, assignedForReview, reviewedBy, endOfReviewPeriod,
           provenance, docs>>
vars == <<data, statusAvu, assignedForReview, reviewedBy, endOfReviewPeriod,
          provenance, docs, now, pc, local, ret, args, misuse>>

NoData == [owner |-> "", draft |-> FALSE, purpose |-> "", previous_request_id |-> NoRequest]
NoDeadline == -1
EmptyLog == [s \in {} |-> 0]

\* The store as one value, so that the steps of a handler compose.
Cur ==
    [data |-> data, statusAvu |-> statusAvu, assignedForReview |-> assignedForReview,
     reviewedBy |-> reviewedBy, endOfReviewPeriod |-> endOfReviewPeriod,
     provenance |-> provenance, docs |-> docs]

Commit(S) ==
    /\ data' = S.data
    /\ statusAvu' = S.statusAvu
    /\ assignedForReview' = S.assignedForReview
    /\ reviewedBy' = S.reviewedBy
    /\ endOfReviewPeriod' = S.endOfReviewPeriod
    /\ provenance' = S.provenance
    /\ docs' = S.docs

Existing(S) == {r \in RequestIds : S.data[r] # NoData}


(***************************************************************************)
(* status_get: exactly one status row gives that status, no row gives      *)
(* IN_SUBMISSION, more than one row raises UUError.                        *)
(***************************************************************************)
UUError == "UUError"

\* A variant that takes one of the rows when there is more than one.
status_get_any_row(S, request_id) ==
    LET rows == S.statusAvu[request_id] IN
    IF Cardinality(rows) = 0 THEN "IN_SUBMISSION"
    ELSE CHOOSE s \in rows : TRUE

status_get(S, request_id) ==
    LET rows == S.statusAvu[request_id] IN
    IF Cardinality(rows) = 1 THEN CHOOSE s \in rows : TRUE
    ELSE IF Cardinality(rows) = 0 THEN "IN_SUBMISSION"
    ELSE UUError

(***************************************************************************)
(* datarequest_provenance_write, as the value it returns and the log it    *)
(* leaves. A request id is well formed when it matches ^\d+$ (here: a      *)
(* natural number; BadRequestId stands for an id with other characters).   *)
(***************************************************************************)
BadRequestId == -1
None == "None"
ERR_REQUEST_ID == "input_error: Invalid request ID supplied"
ERR_STATUS == "input_error: Invalid status parameter supplied"
ERR_TIMESTAMPED == "input_error: Status has already been timestamped"

datarequest_provenance_write_returns(timestamps, request_id, request_status) ==
    IF request_id \notin Nat THEN ERR_REQUEST_ID
    ELSE IF request_status \notin status THEN ERR_STATUS
    ELSE IF request_status \in DOMAIN timestamps THEN ERR_TIMESTAMPED
    ELSE None

\* A variant that overwrites a timestamp that is already there.
datarequest_provenance_write_overwrite(timestamps, request_id, request_status, current_time) ==
    IF request_id \notin Nat \/ request_status \notin status
    THEN timestamps
    ELSE [s \in DOMAIN timestamps \cup {request_status} |->
             IF s = request_status THEN current_time ELSE timestamps[s]]

\* A variant that never writes.
datarequest_provenance_write_skip(timestamps, request_id, request_status, current_time) ==
    timestamps

datarequest_provenance_write(timestamps, request_id, request_status, current_time) ==
    IF datarequest_provenance_write_returns(timestamps, request_id, request_status) # None
    THEN timestamps
    ELSE [s \in DOMAIN timestamps \cup {request_status} |->
             IF s = request_status THEN current_time ELSE timestamps[s]]

(***************************************************************************)
(* The metadata change rule behind metadata_set and assign_request         *)
(* (requestDatarequestMetadataChange followed by adminDatarequestActions)  *)
(* together with the status policy it runs into: a status change is        *)
(* committed only along an edge of status_transitions and is followed by   *)
(* the provenance write; a list attribute is replaced by the given list;   *)
(* reviewedBy gets one more row.                                           *)
(***************************************************************************)
requestDatarequestMetadataChange(S, request_id, key, value, t) ==
    IF request_id \notin Existing(S) THEN S
    ELSE CASE key = "status" ->
                LET current == status_get(S, request_id) IN
                IF current # UUError /\ status_transition_allowed(current, value)
                THEN [S EXCEPT !.statusAvu[request_id] = {value},
                               !.provenance[request_id] =
                                   datarequest_provenance_write(@, request_id, value, t)]
                ELSE S
           [] key = "endOfReviewPeriod" ->
                [S EXCEPT !.endOfReviewPeriod[request_id] = value]
           [] key = "assignedForReview" ->
                [S EXCEPT !.assignedForReview[request_id] = value]
           [] key = "reviewedBy" ->
                [S EXCEPT !.reviewedBy[request_id] = @ \cup {value}]

metadata_set(S, request_id, key, value, t) ==
    requestDatarequestMetadataChange(S, request_id, key, value, t)

\* A variant that writes the status attribute itself: no look at the
\* transitions, no timestamp.
status_set_unlogged(S, request_id, st, t) ==
    [S EXCEPT !.statusAvu[request_id] = {st}]

status_set(S, request_id, st, t) ==
    metadata_set(S, request_id, "status", st, t)

(***************************************************************************)
(* Roles and the permission check.                                         *)
(***************************************************************************)
\* jsonutil.read of datarequest.json raises when there is no such file.
jsonutil_read_raises(S, request_id) == S.data[request_id] = NoData

datarequest_owner_get(S, request_id) ==
    IF jsonutil_read_raises(S, request_id) THEN UUError
    ELSE S.data[request_id].owner

datarequest_is_owner(S, p, request_id) == datarequest_owner_get(S, request_id) = p

\* A variant that never reads the reviewedBy rows.
datarequest_reviewers_get_pending_only(S, request_id, pending) ==
    S.assignedForReview[request_id]

datarequest_reviewers_get(S, request_id, pending) ==
    IF pending THEN S.assignedForReview[request_id]
    ELSE S.assignedForReview[request_id] \cup S.reviewedBy[request_id]

datarequest_is_reviewer(S, p, request_id, pending) ==
    p \in datarequest_reviewers_get(S, request_id, pending)

\* A variant that, asked without a request, looks at every request there is.
datarequest_roles_get_every_request(S, p, request_id) ==
    IF request_id # NoRequest /\ datarequest_owner_get(S, request_id) = UUError
    THEN UUError
    ELSE
    (IF p \in GROUP_PM THEN {"PM"} ELSE {})
    \cup (IF p \in GROUP_DM THEN {"DM"} ELSE {})
    \cup (IF p \in GROUP_DAC THEN {"DAC"} ELSE {})
    \cup (IF \E r \in Existing(S) : request_id \in {NoRequest, r}
                                    /\ datarequest_is_owner(S, p, r)
          THEN {"OWN"} ELSE {})
    \cup (IF \E r \in Existing(S) : request_id \in {NoRequest, r}
                                    /\ datarequest_is_reviewer(S, p, r, FALSE)
          THEN {"REV"} ELSE {})
    \cup (IF \E r \in Existing(S) : request_id \in {NoRequest, r}
                                    /\ datarequest_is_reviewer(S, p, r, TRUE)
          THEN {"PENREV"} ELSE {})

\* The list of roles, or UUError when reading the owner raises.
datarequest_roles_get(S, p, request_id) ==
    IF request_id # NoRequest /\ datarequest_owner_get(S, request_id) = UUError
    THEN UUError
    ELSE
    (IF p \in GROUP_PM THEN {"PM"} ELSE {})
    \cup (IF p \in GROUP_DM THEN {"DM"} ELSE {})
    \cup (IF p \in GROUP_DAC THEN {"DAC"} ELSE {})
    \cup (IF request_id # NoRequest /\ datarequest_is_owner(S, p, request_id)
          THEN {"OWN"} ELSE {})
    \cup (IF request_id # NoRequest /\ datarequest_is_reviewer(S, p, request_id, FALSE)
          THEN {"REV"} ELSE {})
    \cup (IF request_id # NoRequest /\ datarequest_is_reviewer(S, p, request_id, TRUE)
          THEN {"PENREV"} ELSE {})

PERMISSION_STATUS == "permission_error: illegal status transition"
PERMISSION_ROLE == "permission_error: insufficient user permissions"
INTERNAL_ERROR == "internal_error"
AnyStatus == {"None"}

\* The roles of the caller as datarequest_action_permitted collects them.
current_user_roles(S, p, request_id) ==
    (IF p \in GROUP_PM THEN {"PM"} ELSE {})
    \cup (IF p \in GROUP_DM THEN {"DM"} ELSE {})
    \cup (IF p \in GROUP_DAC THEN {"DAC"} ELSE {})
    \cup (IF datarequest_is_owner(S, p, request_id) THEN {"OWN"} ELSE {})
    \cup (IF datarequest_is_reviewer(S, p, request_id, FALSE) THEN {"REV"} ELSE {})

\* A variant that looks at the roles before it looks at the status.
datarequest_action_permitted_roles_first(S, p, request_id, roles, statuses) ==
    IF datarequest_owner_get(S, request_id) = UUError THEN INTERNAL_ERROR
    ELSE IF current_user_roles(S, p, request_id) \cap roles = {} THEN PERMISSION_ROLE
    ELSE IF statuses # AnyStatus /\ status_get(S, request_id) = UUError THEN INTERNAL_ERROR
    ELSE IF statuses # AnyStatus /\ status_get(S, request_id) \notin statuses
         THEN PERMISSION_STATUS
    ELSE "True"

\* A variant without the check of the roles.
datarequest_action_permitted_status_only(S, p, request_id, roles, statuses) ==
    IF statuses # AnyStatus /\ status_get(S, request_id) = UUError THEN INTERNAL_ERROR
    ELSE IF statuses # AnyStatus /\ status_get(S, request_id) \notin statuses
         THEN PERMISSION_STATUS
    ELSE IF datarequest_owner_get(S, request_id) = UUError THEN INTERNAL_ERROR
    ELSE "True"

\* A variant whose except clause lets the caller through.
datarequest_action_permitted_fail_open(S, p, request_id, roles, statuses) ==
    IF statuses # AnyStatus /\ status_get(S, request_id) = UUError THEN "True"
    ELSE IF statuses # AnyStatus /\ status_get(S, request_id) \notin statuses
         THEN PERMISSION_STATUS
    ELSE IF datarequest_owner_get(S, request_id) = UUError THEN "True"
    ELSE IF current_user_roles(S, p, request_id) \cap roles = {} THEN PERMISSION_ROLE
    ELSE "True"

\* statuses = AnyStatus stands for statuses = None (check skipped). A
\* UUError raised by status_get or by the read of the owner is caught and
\* turned into the internal error.
datarequest_action_permitted(S, p, request_id, roles, statuses) ==
    IF statuses # AnyStatus /\ status_get(S, request_id) = UUError THEN INTERNAL_ERROR
    ELSE IF statuses # AnyStatus /\ status_get(S, request_id) \notin statuses
         THEN PERMISSION_STATUS
    ELSE IF datarequest_owner_get(S, request_id) = UUError THEN INTERNAL_ERROR
    ELSE IF current_user_roles(S, p, request_id) \cap roles = {} THEN PERMISSION_ROLE
    ELSE "True"

(***************************************************************************)
(* class type(Enum) and available_documents_get: the documents that exist  *)
(* at a status of a request of a type, without those the caller may not    *)
(* read. Lists are sequences.                                              *)
(***************************************************************************)
type == {"DRAFT", "REGULAR", "DAO"}

\* Construct list of existing documents
existing_documents(datarequest_type, datarequest_status) ==
    IF datarequest_type = "REGULAR" THEN
        CASE datarequest_status = "DRAFT" -> <<>>
          [] datarequest_status \in {"SUBMITTED", "PENDING_ATTACHMENTS"} -> <<DATAREQUEST>>
          [] datarequest_status \in {"PRELIMINARY_ACCEPT", "PRELIMINARY_REJECT",
                                     "PRELIMINARY_RESUBMIT"} ->
                <<DATAREQUEST, PR_REVIEW>>
          [] datarequest_status \in {"DATAMANAGER_ACCEPT", "DATAMANAGER_REJECT",
                                     "DATAMANAGER_RESUBMIT"} ->
                <<DATAREQUEST, PR_REVIEW, DM_REVIEW>>
          [] datarequest_status \in {"UNDER_REVIEW", "REJECTED_AFTER_DATAMANAGER_REVIEW",
                                     "RESUBMIT_AFTER_DATAMANAGER_REVIEW"} ->
                <<DATAREQUEST, PR_REVIEW, DM_REVIEW, ASSIGNMENT>>
          [] datarequest_status = "REVIEWED" ->
                <<DATAREQUEST, PR_REVIEW, DM_REVIEW, ASSIGNMENT, REVIEW>>
          [] datarequest_status \in {"APPROVED", "REJECTED", "RESUBMIT", "RESUBMITTED"} ->
                <<DATAREQUEST, PR_REVIEW, DM_REVIEW, ASSIGNMENT, REVIEW, EVALUATION>>
          [] datarequest_status \in {"PREREGISTRATION_SUBMITTED",
                                     "PREREGISTRATION_CONFIRMED", "DTA_READY",
                                     "DTA_SIGNED", "DATA_READY"} ->
                <<DATAREQUEST, PR_REVIEW, DM_REVIEW, ASSIGNMENT, REVIEW, EVALUATION,
                  PREREGISTRATION>>
          [] OTHER -> <<>>
    ELSE IF datarequest_type = "DAO" THEN
        CASE datarequest_status = "DAO_SUBMITTED" -> <<DATAREQUEST>>
          [] datarequest_status \in {"DAO_APPROVED", "DTA_READY", "DTA_SIGNED",
                                     "DATA_READY"} ->
                <<DATAREQUEST, EVALUATION>>
          [] OTHER -> <<>>
    ELSE <<>>

\* The roles that give allowed_documents a value.
DocumentRoles == {"OWN", "PM", "DM", "REV"}

\* A variant that looks for PM before OWN.
allowed_documents_pm_first(roles) ==
    IF "PM" \in roles
    THEN <<DATAREQUEST, PR_REVIEW, DM_REVIEW, ASSIGNMENT, REVIEW, EVALUATION, PREREGISTRATION>>
    ELSE IF "OWN" \in roles THEN <<DATAREQUEST, PREREGISTRATION>>
    ELSE IF "DM" \in roles THEN <<DATAREQUEST, PR_REVIEW, DM_REVIEW>>
    ELSE <<DATAREQUEST, PR_REVIEW, DM_REVIEW, ASSIGNMENT, REVIEW, EVALUATION>>

\* allowed_documents, for a caller with one of the four roles
allowed_documents(roles) ==
    IF "OWN" \in roles THEN <<DATAREQUEST, PREREGISTRATION>>
    ELSE IF "PM" \in roles
    THEN <<DATAREQUEST, PR_REVIEW, DM_REVIEW, ASSIGNMENT, REVIEW, EVALUATION, PREREGISTRATION>>
    ELSE IF "DM" \in roles THEN <<DATAREQUEST, PR_REVIEW, DM_REVIEW>>
    ELSE <<DATAREQUEST, PR_REVIEW, DM_REVIEW, ASSIGNMENT, REVIEW, EVALUATION>>

NameError == "NameError"
Returned == "return"

\* The outcome of the call: <<Returned, list>>, or <<exception, <<>> >>.
\* For a caller with none of the four roles allowed_documents is not
\* assigned and the list comprehension raises NameError.
available_documents_get(S, p, request_id, datarequest_type, datarequest_status) ==
    IF jsonutil_read_raises(S, request_id) THEN <<UUError, <<>> >>
    ELSE
      LET available_documents == existing_documents(datarequest_type, datarequest_status)
          roles == datarequest_roles_get(S, p, request_id)
      IN  IF roles \cap DocumentRoles = {} THEN <<NameError, <<>> >>
          ELSE <<Returned,
                 SelectSeq(available_documents,
                           LAMBDA value : \E i \in DOMAIN allowed_documents(roles) :
                                             allowed_documents(roles)[i] = value)>>

(***************************************************************************)
(* file_write_and_lock: the document is on disk afterwards.                *)
(***************************************************************************)
file_write_and_lock(S, request_id, filename) ==
    [S EXCEPT !.docs[request_id] = @ \cup {filename}]

datarequest_feedback_write(S, request_id) ==
    file_write_and_lock(S, request_id, FEEDBACK)


(***************************************************************************)
(* generate_request_id: one more than the highest id in use.               *)
(***************************************************************************)
Max(ids) == IF ids = {} THEN 0 ELSE CHOOSE m \in ids : \A i \in ids : i <= m

generate_request_id(S) == Max(Existing(S)) + 1

(***************************************************************************)
(* The permission check of each workflow API call: the roles and statuses  *)
(* the call passes to datarequest_action_permitted.                        *)
(***************************************************************************)
attachments_submit_permitted(S, p, request_id) ==
    datarequest_action_permitted(S, p, request_id, {"OWN"}, {"PENDING_ATTACHMENTS"})

preliminary_review_submit_permitted(S, p, request_id) ==
    datarequest_action_permitted(S, p, request_id, {"PM"}, {"SUBMITTED"})

datamanager_review_submit_permitted(S, p, request_id) ==
    datarequest_action_permitted(S, p, request_id, {"DM"}, {"PRELIMINARY_ACCEPT"})

assignment_submit_permitted(S, p, request_id) ==
    datarequest_action_permitted(S, p, request_id, {"PM"},
        {"DATAMANAGER_ACCEPT", "DATAMANAGER_REJECT", "DATAMANAGER_RESUBMIT"})

review_submit_permitted(S, p, request_id) ==
    datarequest_action_permitted(S, p, request_id, {"PM"}, {"UNDER_REVIEW"})

evaluation_submit_permitted(S, p, request_id) ==
    datarequest_action_permitted(S, p, request_id, {"PM"}, {"REVIEWED"})

preregistration_submit_permitted(S, p, request_id) ==
    datarequest_action_permitted(S, p, request_id, {"OWN"}, {"APPROVED"})

preregistration_confirm_permitted(S, p, request_id) ==
    datarequest_action_permitted(S, p, request_id, {"PM"}, {"PREREGISTRATION_SUBMITTED"})

dta_post_upload_actions_permitted(S, p, request_id) ==
    datarequest_action_permitted(S, p, request_id, {"DM"}, {"APPROVED", "DAO_APPROVED"})

signed_dta_post_upload_actions_permitted(S, p, request_id) ==
    datarequest_action_permitted(S, p, request_id, {"OWN"}, {"DTA_READY"})

data_ready_permitted(S, p, request_id) ==
    datarequest_action_permitted(S, p, request_id, {"DM"}, {"DTA_SIGNED"})

(***************************************************************************)
(* The workflow API calls, each as the store it leaves. In every call the  *)
(* value of datarequest_action_permitted is computed and dropped: the      *)
(* call goes on whatever the check returned.                               *)
(***************************************************************************)
\* A variant that leaves the owner of the form data as the caller sent it.
submit_set_owner_of_payload(form_data, p, draft) ==
    [form_data EXCEPT !.draft = draft]

\* data['owner'] = user.name(ctx); data['draft'] = draft
submit_set_owner(form_data, p, draft) ==
    [form_data EXCEPT !.owner = p, !.draft = draft]

\* The call with the form data as the caller sent it.
api_datarequest_submit_payload(S, p, form_data, draft, draft_request_id, attachments, t) ==
    LET form == submit_set_owner(form_data, p, draft)
        purpose == form.purpose
        previous_request_id == form.previous_request_id
        request_id == IF draft_request_id # NoRequest THEN draft_request_id
                      ELSE generate_request_id(S)
        \* new collection, empty provenance log
        S1 == IF draft_request_id = NoRequest
              THEN [S EXCEPT !.provenance[request_id] = EmptyLog,
                             !.data[request_id] = form]
              ELSE S
        \* write form data to disk
        S2 == [S1 EXCEPT !.data[request_id] = form]
    IN  IF p \in GROUP_PM \cup GROUP_DM THEN S
        ELSE IF draft THEN status_set(S2, request_id, "DRAFT", t)
        ELSE
          LET S3 == IF previous_request_id # NoRequest
                    THEN status_set(S2, previous_request_id, "RESUBMITTED", t)
                    ELSE S2
          IN  IF purpose = DAO_PURPOSE
              THEN status_set(S3, request_id, "DAO_SUBMITTED", t)
              ELSE IF attachments = "Yes"
                   THEN status_set(S3, request_id, "PENDING_ATTACHMENTS", t)
                   ELSE status_set(S3, request_id, "SUBMITTED", t)

\* The call with form data that name no owner.
api_datarequest_submit(S, p, draft, draft_request_id, purpose, attachments, previous_request_id, t) ==
    api_datarequest_submit_payload(
        S, p, [owner |-> "", draft |-> draft, purpose |-> purpose,
               previous_request_id |-> previous_request_id],
        draft, draft_request_id, attachments, t)

ERR_PERMISSION == "permission_error: Action not permitted."

\* What the call returns: the error, or the kind of result and the request id
\* in it (None: nothing).
api_datarequest_submit_returns(S, p, draft, draft_request_id, purpose, attachments) ==
    LET request_id == IF draft_request_id # NoRequest THEN draft_request_id
                      ELSE generate_request_id(S)
    IN  IF p \in GROUP_PM \cup GROUP_DM THEN <<ERR_PERMISSION, NoRequest>>
        ELSE IF draft
             THEN IF draft_request_id = NoRequest THEN <<"requestId", request_id>>
                  ELSE <<None, NoRequest>>
             ELSE IF purpose # DAO_PURPOSE /\ attachments = "Yes"
                  THEN <<"pendingAttachments", request_id>>
                  ELSE <<None, NoRequest>>

api_datarequest_attachments_submit(S, p, request_id, t) ==
    LET permitted == attachments_submit_permitted(S, p, request_id)
    IN  status_set(S, request_id, "SUBMITTED", t)

PreliminaryDecisions == {"Accepted for data manager review", "Rejected",
                         "Rejected (resubmit)", "Invalid"}

api_datarequest_preliminary_review_submit(S, p, request_id, decision, t) ==
    LET permitted == preliminary_review_submit_permitted(S, p, request_id)
        S1 == file_write_and_lock(S, request_id, PR_REVIEW)
    IN  CASE decision = "Accepted for data manager review" ->
                status_set(S1, request_id, "PRELIMINARY_ACCEPT", t)
          [] decision = "Rejected" ->
                status_set(datarequest_feedback_write(S1, request_id), request_id,
                           "PRELIMINARY_REJECT", t)
          [] decision = "Rejected (resubmit)" ->
                status_set(datarequest_feedback_write(S1, request_id), request_id,
                           "PRELIMINARY_RESUBMIT", t)
          [] OTHER -> S1

DatamanagerDecisions == {"Accepted", "Rejected", "Rejected (resubmit)", "Invalid"}

api_datarequest_datamanager_review_submit(S, p, request_id, decision, t) ==
    LET permitted == datamanager_review_submit_permitted(S, p, request_id)
        S1 == file_write_and_lock(S, request_id, DM_REVIEW)
    IN  CASE decision = "Accepted" -> status_set(S1, request_id, "DATAMANAGER_ACCEPT", t)
          [] decision = "Rejected" -> status_set(S1, request_id, "DATAMANAGER_REJECT", t)
          [] decision = "Rejected (resubmit)" ->
                status_set(S1, request_id, "DATAMANAGER_RESUBMIT", t)
          [] OTHER -> S1

\* The DAC members a request can be assigned to: not its owner.
datarequest_dac_members_get(S, request_id) ==
    GROUP_DAC \ {datarequest_owner_get(S, request_id)}

assign_request(S, assignees, request_id, t) ==
    requestDatarequestMetadataChange(S, request_id, "assignedForReview", assignees, t)

\* The sets of DAC members an assignment form names.
AssigneeSets == {a \in SUBSET GROUP_DAC : Cardinality(a) <= MaxAssignees}

AssignmentDecisions == {"Accepted for review", "Rejected", "Rejected (resubmit)", "Invalid"}
ReviewPeriods == {1}

api_datarequest_assignment_submit(S, p, request_id, decision, assign_to, review_period_length, t) ==
    LET permitted == assignment_submit_permitted(S, p, request_id)
        S1 == IF decision = "Accepted for review"
              THEN metadata_set(S, request_id, "endOfReviewPeriod",
                                t + review_period_length * SecondsPerDay, t)
              ELSE S
        S2 == file_write_and_lock(S1, request_id, ASSIGNMENT)
    IN  CASE decision = "Accepted for review" ->
                status_set(assign_request(S2, assign_to, request_id, t), request_id,
                           "UNDER_REVIEW", t)
          [] decision = "Rejected" ->
                status_set(datarequest_feedback_write(S2, request_id), request_id,
                           "REJECTED_AFTER_DATAMANAGER_REVIEW", t)
          [] decision = "Rejected (resubmit)" ->
                status_set(datarequest_feedback_write(S2, request_id), request_id,
                           "RESUBMIT_AFTER_DATAMANAGER_REVIEW", t)
          [] OTHER -> S2

(***************************************************************************)
(* api_datarequest_review_submit, step by step. Nothing locks the          *)
(* assignedForReview attribute between the query that reads it and the     *)
(* rule call that writes it back.                                          *)
(***************************************************************************)
\* the check, then the review file is written
review_submit_write_file(S, p, request_id) ==
    LET permitted == review_submit_permitted(S, p, request_id)
    IN  file_write_and_lock(S, request_id, REVIEW)

\* the rows of assignedForReview, as the query returns them
review_submit_read_reviewers(S, request_id) == S.assignedForReview[request_id]

\* reviewers.remove(user.name(ctx))
review_submit_remove(reviewers, p) == reviewers \ {p}

\* the list is written back, then reviewedBy gets the caller
review_submit_write_reviewers(S, request_id, reviewers, t) ==
    requestDatarequestMetadataChange(S, request_id, "assignedForReview", reviewers, t)

review_submit_set_reviewed_by(S, p, request_id, t) ==
    metadata_set(S, request_id, "reviewedBy", p, t)

\* if len(reviewers) < 1: status_set(REVIEWED)
review_submit_set_status(S, request_id, reviewers, t) ==
    IF Cardinality(reviewers) < 1
    THEN status_set(S, request_id, "REVIEWED", t)
    ELSE S

\* The whole call, run without interruption. reviewers.remove raises
\* ValueError when the caller is not in the list: the call ends there, the
\* review file is already written.
api_datarequest_review_submit(S, p, request_id, t) ==
    LET S1 == review_submit_write_file(S, p, request_id)
        reviewers == review_submit_read_reviewers(S1, request_id)
    IN  IF p \notin reviewers THEN S1
        ELSE
          LET remaining == review_submit_remove(reviewers, p)
              S2 == review_submit_write_reviewers(S1, request_id, remaining, t)
              S3 == review_submit_set_reviewed_by(S2, p, request_id, t)
          IN  review_submit_set_status(S3, request_id, remaining, t)

\* whether the evaluation form carries approval conditions
ApprovalConditions == BOOLEAN

EvaluationDecisions == {"Approved", "Rejected", "Rejected (resubmit)", "Invalid"}

api_datarequest_evaluation_submit(S, p, request_id, decision, approval_conditions, t) ==
    LET permitted == evaluation_submit_permitted(S, p, request_id)
        S1 == IF approval_conditions
              THEN file_write_and_lock(S, request_id, APPROVAL_CONDITIONS)
              ELSE S
        S2 == file_write_and_lock(S1, request_id, EVALUATION)
    IN  CASE decision = "Approved" ->
                IF status_get(S2, request_id) = "DAO_SUBMITTED"
                THEN status_set(S2, request_id, "DAO_APPROVED", t)
                ELSE status_set(S2, request_id, "APPROVED", t)
          [] decision = "Rejected" ->
                status_set(datarequest_feedback_write(S2, request_id), request_id,
                           "REJECTED", t)
          [] decision = "Rejected (resubmit)" ->
                status_set(datarequest_feedback_write(S2, request_id), request_id,
                           "RESUBMIT", t)
          [] OTHER -> S2

api_datarequest_preregistration_submit(S, p, request_id, t) ==
    LET permitted == preregistration_submit_permitted(S, p, request_id)
    IN  status_set(file_write_and_lock(S, request_id, PREREGISTRATION), request_id,
                   "PREREGISTRATION_SUBMITTED", t)

api_datarequest_preregistration_confirm(S, p, request_id, t) ==
    LET permitted == preregistration_confirm_permitted(S, p, request_id)
    IN  status_set(S, request_id, "PREREGISTRATION_CONFIRMED", t)

api_datarequest_dta_post_upload_actions(S, p, request_id, t) ==
    LET permitted == dta_post_upload_actions_permitted(S, p, request_id)
    IN  status_set(S, request_id, "DTA_READY", t)

api_datarequest_signed_dta_post_upload_actions(S, p, request_id, t) ==
    LET permitted == signed_dta_post_upload_actions_permitted(S, p, request_id)
    IN  status_set(S, request_id, "DTA_SIGNED", t)

api_datarequest_data_ready(S, p, request_id, t) ==
    LET permitted == data_ready_permitted(S, p, request_id)
    IN  status_set(S, request_id, "DATA_READY", t)

(***************************************************************************)
(* The expiration sweep: the requests whose endOfReviewPeriod is before    *)
(* now and whose status is UNDER_REVIEW are set to REVIEWED, one by one.   *)
(***************************************************************************)
\* A variant that does not look at the deadline.
expired_review_periods_any_deadline(S, t) ==
    {r \in Existing(S) : S.statusAvu[r] = {"UNDER_REVIEW"}}

\* A variant that leaves out the requests that have reviewers pending.
expired_review_periods_none_pending(S, t) ==
    {r \in Existing(S) :
        /\ S.endOfReviewPeriod[r] # NoDeadline
        /\ S.endOfReviewPeriod[r] < t
        /\ S.statusAvu[r] = {"UNDER_REVIEW"}
        /\ S.assignedForReview[r] = {}}

expired_review_periods(S, t) ==
    {r \in Existing(S) :
        /\ S.endOfReviewPeriod[r] # NoDeadline
        /\ S.endOfReviewPeriod[r] < t
        /\ S.statusAvu[r] = {"UNDER_REVIEW"}}

\* A variant that writes the status attribute itself.
RECURSIVE datarequest_process_expired_review_periods_raw(_, _, _)
datarequest_process_expired_review_periods_raw(S, request_ids, t) ==
    IF request_ids = {} THEN S
    ELSE LET request_id == CHOOSE r \in request_ids : \A q \in request_ids : r <= q
         IN  datarequest_process_expired_review_periods_raw(
                 [S EXCEPT !.statusAvu[request_id] = {"REVIEWED"}],
                 request_ids \ {request_id}, t)

\* A variant that leaves the loop after its first pass.
datarequest_process_expired_review_periods_first(S, request_ids, t) ==
    IF request_ids = {} THEN S
    ELSE LET request_id == CHOOSE r \in request_ids : \A q \in request_ids : r <= q
         IN  status_set(S, request_id, "REVIEWED", t)

RECURSIVE datarequest_process_expired_review_periods(_, _, _)
datarequest_process_expired_review_periods(S, request_ids, t) ==
    IF request_ids = {} THEN S
    ELSE LET request_id == CHOOSE r \in request_ids : \A q \in request_ids : r <= q
         IN  datarequest_process_expired_review_periods(
                 status_set(S, request_id, "REVIEWED", t), request_ids \ {request_id}, t)

rule_datarequest_review_period_expiration_check(S, t) ==
    LET qcoll == expired_review_periods(S, t)
    IN  IF Cardinality(qcoll) > 0
        THEN datarequest_process_expired_review_periods(S, qcoll, t)
        ELSE S

(***************************************************************************)
(* Initial states.                                                         *)
(***************************************************************************)
EmptyStore ==
    [data |-> [r \in RequestIds |-> NoData],
     statusAvu |-> [r \in RequestIds |-> {}],
     assignedForReview |-> [r \in RequestIds |-> {}],
     reviewedBy |-> [r \in RequestIds |-> {}],
     endOfReviewPeriod |-> [r \in RequestIds |-> NoDeadline],
     provenance |-> [r \in RequestIds |-> EmptyLog],
     docs |-> [r \in RequestIds |-> {}]]

StoreIs(S) ==
    /\ data = S.data
    /\ statusAvu = S.statusAvu
    /\ assignedForReview = S.assignedForReview
    /\ reviewedBy = S.reviewedBy
    /\ endOfReviewPeriod = S.endOfReviewPeriod
    /\ provenance = S.provenance
    /\ docs = S.docs

\* Time 0; nobody is in the middle of a call.
Quiet ==
    /\ now = 0
    /\ pc = [q \in Procs |-> "idle"]
    /\ local = [q \in Procs |-> <<>>]
    /\ ret = <<>>
    /\ args = <<>>
    /\ misuse = 0

\* Init: an empty store.
Init == StoreIs(EmptyStore) /\ Quiet

\* The store after one more request has gone the regular path at time 0:
\* submitted by res, accepted by pm and dm, assigned by pm to the assignees
\* with a review period of one day.
RegularPathToReview(S, assignees) ==
    LET request_id == generate_request_id(S)
        S1 == api_datarequest_submit(S, "res", FALSE, NoRequest, OTHER_PURPOSE, "No",
                                     NoRequest, 0)
        S2 == api_datarequest_preliminary_review_submit(
                  S1, "pm", request_id, "Accepted for data manager review", 0)
        S3 == api_datarequest_datamanager_review_submit(S2, "dm", request_id, "Accepted", 0)
    IN  api_datarequest_assignment_submit(S3, "pm", request_id, "Accepted for review",
                                          assignees, 1, 0)

(***************************************************************************)
(* The environment.                                                        *)
(***************************************************************************)
Rest == UNCHANGED <<now, pc, local, ret, args>>

\* The environment makes at most MaxMisuse calls that are not expected of a
\* client: calls whose permission check returns an error.
Budget(permitted) ==
    /\ permitted # "True" => misuse < MaxMisuse
    /\ misuse' = IF permitted # "True" THEN misuse + 1 ELSE misuse

\* api_datarequest_submit has no permission check on the request it names.
\* The calls a client is expected to make: a draft id names a draft of the
\* caller, a previous request id names a request of the caller that is to be
\* resubmitted. Every other call counts against the same budget.
SubmitExpected(p, draft_request_id, previous_request_id) ==
    IF /\ draft_request_id # NoRequest =>
            /\ statusAvu[draft_request_id] = {"DRAFT"}
            /\ data[draft_request_id].owner = p
       /\ previous_request_id # NoRequest =>
            /\ previous_request_id # draft_request_id
            /\ data[previous_request_id].owner = p
            /\ statusAvu[previous_request_id] \subseteq
                  {"RESUBMIT", "PRELIMINARY_RESUBMIT", "RESUBMIT_AFTER_DATAMANAGER_REVIEW"}
            /\ statusAvu[previous_request_id] # {}
    THEN "True" ELSE "unexpected"

\* The review of an assignee is an expected call, although the check asks
\* for the PM role.
ReviewExpected(p, r) ==
    IF p \in assignedForReview[r] /\ statusAvu[r] = {"UNDER_REVIEW"}
    THEN "True"
    ELSE review_submit_permitted(Cur, p, r)

\* The evaluation of a DAO request by a project manager is an expected call,
\* although the check asks for the status REVIEWED.
EvaluationExpected(p, r) ==
    IF p \in GROUP_PM /\ statusAvu[r] = {"DAO_SUBMITTED"}
    THEN "True"
    ELSE evaluation_submit_permitted(Cur, p, r)

(***************************************************************************)
(* Actions: one per API call, the sweep and the clock.                     *)
(***************************************************************************)
\* The request a submission writes to.
SubmitTarget(draft_request_id) ==
    IF draft_request_id = NoRequest THEN generate_request_id(Cur) ELSE draft_request_id

\* The form (draft flag, purpose, attachments) is drawn inside the action.
Submit(p, draft_request_id, previous_request_id) ==
    /\ draft_request_id \in {NoRequest} \cup Existing(Cur)
    /\ previous_request_id \in {NoRequest} \cup Existing(Cur)
    /\ draft_request_id = NoRequest => generate_request_id(Cur) <= MaxNew
    /\ Budget(SubmitExpected(p, draft_request_id, previous_request_id))
    /\ \E draft \in BOOLEAN, purpose \in Purposes, attachments \in {"Yes", "No"} :
          Commit(api_datarequest_submit(Cur, p, draft, draft_request_id, purpose,
                                        attachments, previous_request_id, now))
    /\ Rest

AttachmentsSubmit(p, r) ==
    /\ r \in Existing(Cur)
    /\ Budget(attachments_submit_permitted(Cur, p, r))
    /\ Commit(api_datarequest_attachments_submit(Cur, p, r, now))
    /\ Rest

PreliminaryReviewSubmit(p, r) ==
    /\ r \in Existing(Cur)
    /\ Budget(preliminary_review_submit_permitted(Cur, p, r))
    /\ \E decision \in PreliminaryDecisions :
          Commit(api_datarequest_preliminary_review_submit(Cur, p, r, decision, now))
    /\ Rest

DatamanagerReviewSubmit(p, r) ==
    /\ r \in Existing(Cur)
    /\ Budget(datamanager_review_submit_permitted(Cur, p, r))
    /\ \E decision \in DatamanagerDecisions :
          Commit(api_datarequest_datamanager_review_submit(Cur, p, r, decision, now))
    /\ Rest

AssignmentSubmit(p, r) ==
    /\ r \in Existing(Cur)
    /\ Budget(assignment_submit_permitted(Cur, p, r))
    /\ \E decision \in AssignmentDecisions, assign_to \in AssigneeSets,
          review_period_length \in ReviewPeriods :
          /\ assign_to # {}
          /\ assign_to \subseteq datarequest_dac_members_get(Cur, r)
          /\ Commit(api_datarequest_assignment_submit(Cur, p, r, decision, assign_to,
                                                      review_period_length, now))
    /\ Rest

ReviewSubmit(p, r) ==
    /\ r \in Existing(Cur)
    /\ pc[p] = "idle"
    /\ Budget(ReviewExpected(p, r))
    /\ Commit(api_datarequest_review_submit(Cur, p, r, now))
    /\ Rest

EvaluationSubmit(p, r) ==
    /\ r \in Existing(Cur)
    /\ Budget(EvaluationExpected(p, r))
    /\ \E decision \in EvaluationDecisions, approval_conditions \in ApprovalConditions :
          Commit(api_datarequest_evaluation_submit(Cur, p, r, decision,
                                                   approval_conditions, now))
    /\ Rest

PreregistrationSubmit(p, r) ==
    /\ r \in Existing(Cur)
    /\ Budget(preregistration_submit_permitted(Cur, p, r))
    /\ Commit(api_datarequest_preregistration_submit(Cur, p, r, now))
    /\ Rest

PreregistrationConfirm(p, r) ==
    /\ r \in Existing(Cur)
    /\ Budget(preregistration_confirm_permitted(Cur, p, r))
    /\ Commit(api_datarequest_preregistration_confirm(Cur, p, r, now))
    /\ Rest

DtaPostUploadActions(p, r) ==
    /\ r \in Existing(Cur)
    /\ Budget(dta_post_upload_actions_permitted(Cur, p, r))
    /\ Commit(api_datarequest_dta_post_upload_actions(Cur, p, r, now))
    /\ Rest

SignedDtaPostUploadActions(p, r) ==
    /\ r \in Existing(Cur)
    /\ Budget(signed_dta_post_upload_actions_permitted(Cur, p, r))
    /\ Commit(api_datarequest_signed_dta_post_upload_actions(Cur, p, r, now))
    /\ Rest

DataReady(p, r) ==
    /\ r \in Existing(Cur)
    /\ Budget(data_ready_permitted(Cur, p, r))
    /\ Commit(api_datarequest_data_ready(Cur, p, r, now))
    /\ Rest

\* One run of the sweep, without interruption.
ExpirationCheck ==
    /\ pc[Sweeper] = "idle"
    /\ Commit(rule_datarequest_review_period_expiration_check(Cur, now))
    /\ UNCHANGED misuse
    /\ Rest

\* The clock advances by a day.
ClockTick ==
    /\ now < MaxDays * SecondsPerDay
    /\ now' = now + SecondsPerDay
    /\ UNCHANGED <<store, pc, local, ret, args, misuse>>

\* Nothing but the review deadline depends on the time, so the clock is
\* followed only while a request is under review and its deadline has not
\* passed.
Tick ==
    /\ \E r \in RequestIds :
          /\ statusAvu[r] = {"UNDER_REVIEW"}
          /\ endOfReviewPeriod[r] # NoDeadline /\ endOfReviewPeriod[r] >= now
    /\ ClockTick

Next ==
    \/ \E p \in Principals, draft_request_id \in {NoRequest} \cup RequestIds,
          previous_request_id \in {NoRequest} \cup RequestIds :
            Submit(p, draft_request_id, previous_request_id)
    \/ \E p \in Principals, r \in RequestIds : AttachmentsSubmit(p, r)
    \/ \E p \in Principals, r \in RequestIds : PreliminaryReviewSubmit(p, r)
    \/ \E p \in Principals, r \in RequestIds : DatamanagerReviewSubmit(p, r)
    \/ \E p \in Principals, r \in RequestIds : AssignmentSubmit(p, r)
    \/ \E p \in Principals, r \in RequestIds : ReviewSubmit(p, r)
    \/ \E p \in Principals, r \in RequestIds : EvaluationSubmit(p, r)
    \/ \E p \in Principals, r \in RequestIds : PreregistrationSubmit(p, r)
    \/ \E p \in Principals, r \in RequestIds : PreregistrationConfirm(p, r)
    \/ \E p \in Principals, r \in RequestIds : DtaPostUploadActions(p, r)
    \/ \E p \in Principals, r \in RequestIds : SignedDtaPostUploadActions(p, r)
    \/ \E p \in Principals, r \in RequestIds : DataReady(p, r)
    \/ ExpirationCheck
    \/ Tick

Spec == Init /\ [][Next]_vars

(***************************************************************************)
(* SpecGraph: status_transition_allowed applied to every pair of statuses. *)
(***************************************************************************)
InitGraph ==
    /\ StoreIs(EmptyStore)
    /\ now = 0
    /\ pc = [q \in Procs |-> "idle"]
    /\ local = [q \in Procs |-> <<>>]
    /\ ret = <<>>
    /\ args \in status \X status
    /\ misuse = 0

TransitionAllowed ==
    /\ ret = <<>>
    /\ ret' = <<status_transition_allowed(args[1], args[2])>>
    /\ UNCHANGED <<store, now, pc, local, args, misuse>>

NextGraph == TransitionAllowed

SpecGraph == InitGraph /\ [][NextGraph]_vars

(***************************************************************************)
(* SpecProv: datarequest_provenance_write called directly on the log of a  *)
(* request that res has saved as a draft, while the clock runs.            *)
(***************************************************************************)
ProvRequestIds == {1, BadRequestId}
ProvStatuses == {"DRAFT", "SUBMITTED", "REVIEWED", "DATA_READY", "NOT_A_STATUS"}

InitProv ==
    /\ StoreIs(api_datarequest_submit(EmptyStore, "res", TRUE, NoRequest, OTHER_PURPOSE,
                                      "No", NoRequest, 0))
    /\ Quiet

ProvenanceWrite(request_id, request_status) ==
    LET r == IF request_id \in RequestIds THEN request_id ELSE 1 IN
    /\ args' = <<request_id, request_status>>
    /\ ret' = <<datarequest_provenance_write_returns(provenance[r], request_id,
                                                     request_status)>>
    /\ provenance' = [provenance EXCEPT ![r] =
                         datarequest_provenance_write(@, request_id, request_status, now)]
    /\ UNCHANGED <<data, statusAvu, assignedForReview, reviewedBy, endOfReviewPeriod,
                   docs, now, pc, local, misuse>>

NextProv ==
    \/ \E request_id \in ProvRequestIds, request_status \in ProvStatuses :
            ProvenanceWrite(request_id, request_status)
    \/ ClockTick

SpecProv == InitProv /\ [][NextProv]_vars

(***************************************************************************)
(* SpecReview: the two assignees of a request under review submit their    *)
(* reviews at the same time, each call advancing one access to the store   *)
(* at a time; the sweep and the clock run alongside.                       *)
(***************************************************************************)
InitReview ==
    /\ StoreIs(RegularPathToReview(EmptyStore, {"m1", "m2"}))
    /\ Quiet

ReviewWriteFile(p, r) ==
    /\ pc[p] = "idle"
    /\ r \in Existing(Cur)
    /\ Commit(review_submit_write_file(Cur, p, r))
    /\ pc' = [pc EXCEPT ![p] = "read"]
    /\ local' = [local EXCEPT ![p] = <<r, {}>>]
    /\ UNCHANGED <<now, ret, args, misuse>>

ReviewReadReviewers(p) ==
    /\ pc[p] = "read"
    /\ LET r == local[p][1]
           reviewers == review_submit_read_reviewers(Cur, r)
       IN  IF p \notin reviewers
           THEN /\ pc' = [pc EXCEPT ![p] = "ValueError"]
                /\ local' = [local EXCEPT ![p] = <<r, reviewers>>]
           ELSE /\ pc' = [pc EXCEPT ![p] = "write"]
                /\ local' = [local EXCEPT ![p] = <<r, review_submit_remove(reviewers, p)>>]
    /\ UNCHANGED <<store, now, ret, args, misuse>>

ReviewWriteReviewers(p) ==
    /\ pc[p] = "write"
    /\ Commit(review_submit_write_reviewers(Cur, local[p][1], local[p][2], now))
    /\ pc' = [pc EXCEPT ![p] = "reviewedBy"]
    /\ UNCHANGED <<now, local, ret, args, misuse>>

ReviewSetReviewedBy(p) ==
    /\ pc[p] = "reviewedBy"
    /\ Commit(review_submit_set_reviewed_by(Cur, p, local[p][1], now))
    /\ pc' = [pc EXCEPT ![p] = "status"]
    /\ UNCHANGED <<now, local, ret, args, misuse>>

ReviewSetStatus(p) ==
    /\ pc[p] = "status"
    /\ Commit(review_submit_set_status(Cur, local[p][1], local[p][2], now))
    /\ pc' = [pc EXCEPT ![p] = "done"]
    /\ UNCHANGED <<now, local, ret, args, misuse>>

NextReview ==
    \/ \E p \in GROUP_DAC, r \in RequestIds : ReviewWriteFile(p, r)
    \/ \E p \in GROUP_DAC : ReviewReadReviewers(p)
    \/ \E p \in GROUP_DAC : ReviewWriteReviewers(p)
    \/ \E p \in GROUP_DAC : ReviewSetReviewedBy(p)
    \/ \E p \in GROUP_DAC : ReviewSetStatus(p)
    \/ ExpirationCheck
    \/ Tick

SpecReview == InitReview /\ [][NextReview]_vars

\* The same, with a clock that goes on and a sweep that is run again and
\* again: the rule is a job that is scheduled anew for as long as the
\* system is up. Nothing is asked of the reviewers.
SpecReviewFair ==
    /\ InitReview
    /\ [][NextReview]_vars
    /\ WF_vars(Tick)
    /\ WF_vars(ExpirationCheck)

(***************************************************************************)
(* SpecSweep: two requests under review, one assigned to m1 and m2 and one *)
(* assigned to m1. The sweep runs as a whole or request by request, and    *)
(* may stop between two requests; reviews come in and the clock runs.      *)
(***************************************************************************)
InitSweep ==
    /\ StoreIs(RegularPathToReview(RegularPathToReview(EmptyStore, {"m1", "m2"}), {"m1"}))
    /\ Quiet

\* the query of the rule
SweepQuery ==
    /\ pc[Sweeper] = "idle"
    /\ Cardinality(expired_review_periods(Cur, now)) > 0
    /\ pc' = [pc EXCEPT ![Sweeper] = "process"]
    /\ local' = [local EXCEPT ![Sweeper] = <<expired_review_periods(Cur, now)>>]
    /\ UNCHANGED <<store, now, ret, args, misuse>>

\* one pass of the loop of datarequest_process_expired_review_periods
SweepProcess(r) ==
    /\ pc[Sweeper] = "process"
    /\ r \in local[Sweeper][1]
    /\ Commit(status_set(Cur, r, "REVIEWED", now))
    /\ LET left == local[Sweeper][1] \ {r}
       IN  IF left = {}
           THEN /\ pc' = [pc EXCEPT ![Sweeper] = "idle"]
                /\ local' = [local EXCEPT ![Sweeper] = <<>>]
           ELSE /\ pc' = pc
                /\ local' = [local EXCEPT ![Sweeper] = <<left>>]
    /\ UNCHANGED <<now, ret, args, misuse>>

\* the job dies between two passes
SweepCrash ==
    /\ pc[Sweeper] = "process"
    /\ pc' = [pc EXCEPT ![Sweeper] = "idle"]
    /\ local' = [local EXCEPT ![Sweeper] = <<>>]
    /\ UNCHANGED <<store, now, ret, args, misuse>>

NextSweep ==
    \/ SweepQuery
    \/ \E r \in RequestIds : SweepProcess(r)
    \/ SweepCrash
    \/ ExpirationCheck
    \/ \E p \in Principals, r \in RequestIds : ReviewSubmit(p, r)
    \/ Tick

SpecSweep == InitSweep /\ [][NextSweep]_vars

(***************************************************************************)
(* SpecPermitted: datarequest_action_permitted called once, for every      *)
(* caller, on a store with one request. The group directory is kept        *)
(* outside the program: the owner of a request may have joined a group     *)
(* since the submission, a reviewer since the assignment. The status       *)
(* attribute is a table of rows; status_get provides for more than one.    *)
(* Request 2 does not exist: its datarequest.json cannot be read.          *)
(***************************************************************************)
CheckOwners == {"res", "m1", Supervisor}
CheckReviewers == {"m1", Supervisor}
CheckStatusRows ==
    {{}, {"SUBMITTED"}, {"UNDER_REVIEW"}, {"REVIEWED"}, {"SUBMITTED", "REVIEWED"}}

RoleStore(owner, draft, purpose, rows, pending, completed) ==
    [EmptyStore EXCEPT
        !.data[1] = [owner |-> owner, draft |-> draft, purpose |-> purpose,
                     previous_request_id |-> NoRequest],
        !.statusAvu[1] = rows,
        !.provenance[1] = [s \in rows |-> 0],
        !.assignedForReview[1] = pending,
        !.reviewedBy[1] = completed]

InitPermitted ==
    /\ \E owner \in CheckOwners, rows \in CheckStatusRows :
          \E pending \in SUBSET (CheckReviewers \ {owner}) :
             \E completed \in SUBSET (CheckReviewers \ ({owner} \cup pending)) :
                StoreIs(RoleStore(owner, FALSE, OTHER_PURPOSE, rows, pending, completed))
    /\ Quiet

PermittedRoles ==
    {{}, {"PM"}, {"DM"}, {"DAC"}, {"OWN"}, {"REV"}, {"PM", "DM", "DAC", "OWN"}}
PermittedStatuses == {AnyStatus, {"SUBMITTED"}, {"UNDER_REVIEW", "REVIEWED"}}

ActionPermitted(p, request_id, roles, statuses) ==
    /\ ret = <<>>
    /\ args' = <<p, request_id, roles, statuses>>
    /\ ret' = <<datarequest_action_permitted(Cur, p, request_id, roles, statuses)>>
    /\ UNCHANGED <<store, now, pc, local, misuse>>

NextPermitted ==
    \E p \in Callers, request_id \in RequestIds, roles \in PermittedRoles,
       statuses \in PermittedStatuses :
          ActionPermitted(p, request_id, roles, statuses)

SpecPermitted == InitPermitted /\ [][NextPermitted]_vars

(***************************************************************************)
(* SpecTerminal: request 1 has come to the end of one of the ways through  *)
(* the workflow; the workflow calls are made on it, requests are           *)
(* submitted that name it as draft or as previous request, the sweep runs  *)
(* and the clock goes on.                                                  *)
(***************************************************************************)
TerminalRequest == 1

\* The stores at the end of five ways through the workflow, all at time 0:
\* rejected by the project manager; sent back and submitted again as
\* request 2; rejected after the data manager review; rejected after the
\* review; approved, preregistered and the data made ready.
TerminalStores ==
    LET r == TerminalRequest
        submitted == api_datarequest_submit(EmptyStore, "res", FALSE, NoRequest,
                                            OTHER_PURPOSE, "No", NoRequest, 0)
        pr_rejected == api_datarequest_preliminary_review_submit(
                           submitted, "pm", r, "Rejected", 0)
        pr_resubmit == api_datarequest_preliminary_review_submit(
                           submitted, "pm", r, "Rejected (resubmit)", 0)
        resubmitted == api_datarequest_submit(pr_resubmit, "res", FALSE, NoRequest,
                                              OTHER_PURPOSE, "No", r, 0)
        pr_accepted == api_datarequest_preliminary_review_submit(
                           submitted, "pm", r, "Accepted for data manager review", 0)
        dm_accepted == api_datarequest_datamanager_review_submit(
                           pr_accepted, "dm", r, "Accepted", 0)
        dm_rejected == api_datarequest_assignment_submit(
                           dm_accepted, "pm", r, "Rejected", {}, 1, 0)
        reviewed == api_datarequest_review_submit(
                        RegularPathToReview(EmptyStore, {"m1"}), "m1", r, 0)
        rejected == api_datarequest_evaluation_submit(reviewed, "pm", r, "Rejected", FALSE, 0)
        approved == api_datarequest_evaluation_submit(reviewed, "pm", r, "Approved", TRUE, 0)
        confirmed == api_datarequest_preregistration_confirm(
                         api_datarequest_preregistration_submit(approved, "res", r, 0),
                         "pm", r, 0)
        dta_signed == api_datarequest_signed_dta_post_upload_actions(
                          api_datarequest_dta_post_upload_actions(confirmed, "dm", r, 0),
                          "res", r, 0)
        data_ready == api_datarequest_data_ready(dta_signed, "dm", r, 0)
    IN  {pr_rejected, resubmitted, dm_rejected, rejected, data_ready}

InitTerminal ==
    /\ \E S \in TerminalStores : StoreIs(S)
    /\ Quiet

\* The submission of one more request to a store that holds requests.
SubmitAnother(p, previous_request_id) ==
    /\ Existing(Cur) # {}
    /\ generate_request_id(Cur) <= MaxRequests
    /\ previous_request_id \in {NoRequest} \cup Existing(Cur)
    /\ Budget(SubmitExpected(p, NoRequest, previous_request_id))
    /\ \E draft \in BOOLEAN, purpose \in Purposes, attachments \in {"Yes", "No"} :
          Commit(api_datarequest_submit(Cur, p, draft, NoRequest, purpose,
                                        attachments, previous_request_id, now))
    /\ Rest

NextTerminal ==
    \/ \E p \in Principals, previous_request_id \in {NoRequest} \cup RequestIds :
            SubmitAnother(p, previous_request_id)
    \/ \E p \in Principals, draft_request_id \in RequestIds,
          previous_request_id \in {NoRequest} \cup RequestIds :
            Submit(p, draft_request_id, previous_request_id)
    \/ \E p \in Principals : AttachmentsSubmit(p, TerminalRequest)
    \/ \E p \in Principals : PreliminaryReviewSubmit(p, TerminalRequest)
    \/ \E p \in Principals : DatamanagerReviewSubmit(p, TerminalRequest)
    \/ \E p \in Principals : AssignmentSubmit(p, TerminalRequest)
    \/ \E p \in Principals : ReviewSubmit(p, TerminalRequest)
    \/ \E p \in Principals : EvaluationSubmit(p, TerminalRequest)
    \/ \E p \in Principals : PreregistrationSubmit(p, TerminalRequest)
    \/ \E p \in Principals : PreregistrationConfirm(p, TerminalRequest)
    \/ \E p \in Principals : DtaPostUploadActions(p, TerminalRequest)
    \/ \E p \in Principals : SignedDtaPostUploadActions(p, TerminalRequest)
    \/ \E p \in Principals : DataReady(p, TerminalRequest)
    \/ ExpirationCheck
    \/ ClockTick

SpecTerminal == InitTerminal /\ [][NextTerminal]_vars

(***************************************************************************)
(* SpecDocuments: datarequest_roles_get and available_documents_get called *)
(* once, for every caller, on a store with one request, before or after    *)
(* review submissions. available_documents_get gets type and status as     *)
(* arguments: it is called for every type and status.                      *)
(***************************************************************************)
InitDocuments ==
    /\ \E owner \in CheckOwners :
          \E pending \in SUBSET (CheckReviewers \ {owner}) :
             \E completed \in SUBSET (CheckReviewers \ ({owner} \cup pending)) :
                StoreIs(RoleStore(owner, FALSE, OTHER_PURPOSE,
                                  IF pending # {} THEN {"UNDER_REVIEW"}
                                  ELSE IF completed # {} THEN {"REVIEWED"}
                                  ELSE {"SUBMITTED"},
                                  pending, completed))
    /\ Quiet

RolesGet(p, request_id) ==
    /\ ret = <<>>
    /\ args' = <<p, request_id>>
    /\ ret' = IF request_id # NoRequest /\ jsonutil_read_raises(Cur, request_id)
              THEN <<UUError, {}>>
              ELSE <<Returned, datarequest_roles_get(Cur, p, request_id)>>
    /\ UNCHANGED <<store, now, pc, local, misuse>>

AvailableDocumentsGet(p, request_id, datarequest_type, datarequest_status) ==
    /\ ret = <<>>
    /\ args' = <<p, request_id, datarequest_type, datarequest_status>>
    /\ ret' = available_documents_get(Cur, p, request_id, datarequest_type,
                                      datarequest_status)
    /\ UNCHANGED <<store, now, pc, local, misuse>>

NextDocuments ==
    \/ \E p \in Callers, request_id \in {NoRequest} \cup RequestIds :
            RolesGet(p, request_id)
    \/ \E p \in Callers, request_id \in RequestIds, datarequest_type \in type,
          datarequest_status \in status :
            AvailableDocumentsGet(p, request_id, datarequest_type, datarequest_status)
    \/ \E p \in Principals, r \in RequestIds : ret = <<>> /\ ReviewSubmit(p, r)

SpecDocuments == InitDocuments /\ [][NextDocuments]_vars

(***************************************************************************)
(* SpecSubmit: new requests are submitted at the same time, each call      *)
(* advancing one access to the store at a time: the id is generated, the   *)
(* collection is created and the form written, the previous request is     *)
(* marked, the status is set. The store is empty or holds request 1, sent  *)
(* back to res for resubmission.                                           *)
(***************************************************************************)
Submitters == {"res", "m1", "pm"}

\* the form as it is written to datarequest.json
submit_form(p, draft, purpose, previous_request_id) ==
    [owner |-> p, draft |-> draft, purpose |-> purpose,
     previous_request_id |-> previous_request_id]

\* the collection, an empty provenance log and the form
submit_create_collection(S, request_id, form) ==
    [S EXCEPT !.provenance[request_id] = EmptyLog, !.data[request_id] = form]

\* the previous request of a resubmission
submit_mark_previous(S, previous_request_id, t) ==
    IF previous_request_id # NoRequest
    THEN status_set(S, previous_request_id, "RESUBMITTED", t)
    ELSE S

\* the status of the request
submit_set_status(S, request_id, draft, purpose, attachments, t) ==
    IF draft THEN status_set(S, request_id, "DRAFT", t)
    ELSE IF purpose = DAO_PURPOSE THEN status_set(S, request_id, "DAO_SUBMITTED", t)
    ELSE IF attachments = "Yes" THEN status_set(S, request_id, "PENDING_ATTACHMENTS", t)
    ELSE status_set(S, request_id, "SUBMITTED", t)

SubmitStores ==
    LET submitted == api_datarequest_submit(EmptyStore, "res", FALSE, NoRequest,
                                            OTHER_PURPOSE, "No", NoRequest, 0)
    IN  {EmptyStore,
         api_datarequest_preliminary_review_submit(submitted, "pm", 1,
                                                   "Rejected (resubmit)", 0)}

InitSubmit ==
    /\ \E S \in SubmitStores : StoreIs(S)
    /\ Quiet

\* The call is refused to project managers and data managers.
SubmitRefused(p) ==
    /\ pc[p] = "idle"
    /\ p \in GROUP_PM \cup GROUP_DM
    /\ pc' = [pc EXCEPT ![p] = "permission_error"]
    /\ UNCHANGED <<store, now, local, ret, args, misuse>>

\* local: request id, draft flag, purpose, attachments, previous request id
SubmitGenerateId(p, previous_request_id) ==
    /\ pc[p] = "idle"
    /\ p \notin GROUP_PM \cup GROUP_DM
    /\ previous_request_id \in {NoRequest} \cup Existing(Cur)
    /\ generate_request_id(Cur) <= MaxRequests
    /\ Budget(SubmitExpected(p, NoRequest, previous_request_id))
    /\ \E draft \in BOOLEAN, purpose \in Purposes, attachments \in {"Yes", "No"} :
          local' = [local EXCEPT ![p] = <<generate_request_id(Cur), draft, purpose,
                                           attachments, previous_request_id>>]
    /\ pc' = [pc EXCEPT ![p] = "create"]
    /\ UNCHANGED <<store, now, ret, args>>

\* collection.create is a call into the storage layer: given a path that is
\* there already it raises UUError or goes on.
SubmitCreateCollection(p) ==
    /\ pc[p] = "create"
    /\ \/ /\ local[p][1] \in Existing(Cur)
          /\ pc' = [pc EXCEPT ![p] = "create_collection_fail"]
          /\ UNCHANGED store
       \/ /\ Commit(submit_create_collection(Cur, local[p][1],
                        submit_form(p, local[p][2], local[p][3], local[p][5])))
          /\ pc' = [pc EXCEPT ![p] = IF local[p][2] THEN "status" ELSE "previous"]
    /\ UNCHANGED <<now, local, ret, args, misuse>>

SubmitMarkPrevious(p) ==
    /\ pc[p] = "previous"
    /\ Commit(submit_mark_previous(Cur, local[p][5], now))
    /\ pc' = [pc EXCEPT ![p] = "status"]
    /\ UNCHANGED <<now, local, ret, args, misuse>>

SubmitSetStatus(p) ==
    /\ pc[p] = "status"
    /\ Commit(submit_set_status(Cur, local[p][1], local[p][2], local[p][3],
                                local[p][4], now))
    /\ pc' = [pc EXCEPT ![p] = "done"]
    /\ UNCHANGED <<now, local, ret, args, misuse>>

NextSubmit ==
    \/ \E p \in Submitters : SubmitRefused(p)
    \/ \E p \in Submitters, previous_request_id \in {NoRequest} \cup RequestIds :
            SubmitGenerateId(p, previous_request_id)
    \/ \E p \in Submitters : SubmitCreateCollection(p)
    \/ \E p \in Submitters : SubmitMarkPrevious(p)
    \/ \E p \in Submitters : SubmitSetStatus(p)

SpecSubmit == InitSubmit /\ [][NextSubmit]_vars

(***************************************************************************)
(* SpecRace: the sweep and the review submissions act on the same requests *)
(* at the same time, the sweep query by pass, the submissions one access   *)
(* to the store at a time. Request 1 is assigned to m1 and m2, request 2   *)
(* to m1 alone: m1 is its last pending reviewer.                           *)
(***************************************************************************)
\* Request 2 has one pending reviewer, m1.
LastReviewerRequest == 2

InitRace ==
    /\ StoreIs(RegularPathToReview(RegularPathToReview(EmptyStore, {"m1", "m2"}), {"m1"}))
    /\ Quiet

NextRace ==
    \/ \E p \in GROUP_DAC, r \in RequestIds : ReviewWriteFile(p, r)
    \/ \E p \in GROUP_DAC : ReviewReadReviewers(p)
    \/ \E p \in GROUP_DAC : ReviewWriteReviewers(p)
    \/ \E p \in GROUP_DAC : ReviewSetReviewedBy(p)
    \/ \E p \in GROUP_DAC : ReviewSetStatus(p)
    \/ SweepQuery
    \/ \E r \in RequestIds : SweepProcess(r)
    \/ Tick

SpecRace == InitRace /\ [][NextRace]_vars

(***************************************************************************)
(* SpecStatus: status_get called once, after submissions, on a store that  *)
(* was empty or held request 1 of res with no, one or two rows of the      *)
(* status attribute.                                                       *)
(***************************************************************************)
StatusRows == CheckStatusRows \cup {{"DRAFT"}}

InitStatus ==
    /\ \/ StoreIs(EmptyStore)
       \/ \E rows \in StatusRows :
             StoreIs(RoleStore("res", rows = {"DRAFT"}, OTHER_PURPOSE, rows, {}, {}))
    /\ Quiet

StatusGet(request_id) ==
    /\ ret = <<>>
    /\ request_id \in Existing(Cur)
    /\ args' = <<request_id>>
    /\ ret' = <<status_get(Cur, request_id)>>
    /\ UNCHANGED <<store, now, pc, local, misuse>>

NextStatus ==
    \/ \E request_id \in RequestIds : StatusGet(request_id)
    \/ \E p \in Principals, draft_request_id \in {NoRequest} \cup RequestIds :
            ret = <<>> /\ Submit(p, draft_request_id, NoRequest)
    \/ \E p \in Principals : ret = <<>> /\ SubmitAnother(p, NoRequest)

SpecStatus == InitStatus /\ [][NextStatus]_vars

(***************************************************************************)
(* SpecWriteFail: the life of a request from UNDER_REVIEW on, where the     *)
(* write of the provenance log may fail once (jsonutil.write raises        *)
(* UUError) in a call of api_datarequest_preregistration_confirm.          *)
(***************************************************************************)
ERR_WRITE == "write_error: Could not write timestamp to provenance log"

\* datarequest_provenance_write when jsonutil.write raises: the log stays as
\* it was and the error is the value returned.
datarequest_provenance_write_fails(timestamps, request_id, request_status) ==
    [returns |-> IF datarequest_provenance_write_returns(timestamps, request_id,
                                                         request_status) # None
                 THEN datarequest_provenance_write_returns(timestamps, request_id,
                                                           request_status)
                 ELSE ERR_WRITE,
     timestamps |-> timestamps]

\* status_set when the write of the log fails: the status row is written
\* along an edge as ever, the log is the one the failed write leaves.
status_set_write_fails(S, request_id, st, t) ==
    [status_set(S, request_id, st, t) EXCEPT
        !.provenance[request_id] =
            datarequest_provenance_write_fails(S.provenance[request_id], request_id,
                                               st).timestamps]

\* status_set and metadata_set have no return statement, and
\* api_datarequest_preregistration_confirm has none either.
status_set_returns == None

api_datarequest_preregistration_confirm_returns == None

api_datarequest_preregistration_confirm_write_fails(S, p, request_id, t) ==
    LET permitted == preregistration_confirm_permitted(S, p, request_id)
    IN  status_set_write_fails(S, request_id, "PREREGISTRATION_CONFIRMED", t)

InitWriteFail ==
    /\ StoreIs(RegularPathToReview(EmptyStore, {"m1"}))
    /\ Quiet

\* A call of api_datarequest_preregistration_confirm in which the status
\* write is committed and the write of the log fails; args keeps what
\* datarequest_provenance_write returned, ret what the call returned.
PreregistrationConfirmWriteFails(p, r) ==
    /\ ret = <<>>
    /\ r \in Existing(Cur)
    /\ status_get(Cur, r) # UUError
    /\ status_transition_allowed(status_get(Cur, r), "PREREGISTRATION_CONFIRMED")
    /\ Budget(preregistration_confirm_permitted(Cur, p, r))
    /\ Commit(api_datarequest_preregistration_confirm_write_fails(Cur, p, r, now))
    /\ args' = <<r, datarequest_provenance_write_fails(
                        provenance[r], r, "PREREGISTRATION_CONFIRMED").returns>>
    /\ ret' = <<api_datarequest_preregistration_confirm_returns>>
    /\ UNCHANGED <<now, pc, local>>

NextWriteFail ==
    \/ \E p \in Principals, r \in RequestIds : ReviewSubmit(p, r)
    \/ \E p \in Principals, r \in RequestIds : EvaluationSubmit(p, r)
    \/ \E p \in Principals, r \in RequestIds : PreregistrationSubmit(p, r)
    \/ \E p \in Principals, r \in RequestIds : PreregistrationConfirm(p, r)
    \/ \E p \in Principals, r \in RequestIds : PreregistrationConfirmWriteFails(p, r)
    \/ \E p \in Principals, r \in RequestIds : DtaPostUploadActions(p, r)
    \/ \E p \in Principals, r \in RequestIds : SignedDtaPostUploadActions(p, r)
    \/ \E p \in Principals, r \in RequestIds : DataReady(p, r)
    \/ ExpirationCheck
    \/ Tick

SpecWriteFail == InitWriteFail /\ [][NextWriteFail]_vars

(***************************************************************************)
(* SpecOwner: api_datarequest_submit called with form data that carry an   *)
(* owner of the caller's choosing.                                         *)
(***************************************************************************)
PayloadOwners == {"", "res", "pm"}

SubmitPayload(p, payload_owner, draft_request_id) ==
    /\ draft_request_id \in {NoRequest} \cup Existing(Cur)
    /\ draft_request_id = NoRequest => generate_request_id(Cur) <= MaxRequests
    /\ Budget(SubmitExpected(p, draft_request_id, NoRequest))
    /\ \E draft \in BOOLEAN, purpose \in Purposes, attachments \in {"Yes", "No"} :
          /\ Commit(api_datarequest_submit_payload(
                        Cur, p, [owner |-> payload_owner, draft |-> draft,
                                 purpose |-> purpose, previous_request_id |-> NoRequest],
                        draft, draft_request_id, attachments, now))
          /\ ret' = <<api_datarequest_submit_returns(Cur, p, draft, draft_request_id,
                                                     purpose, attachments)>>
    /\ args' = <<p, payload_owner, SubmitTarget(draft_request_id)>>
    /\ UNCHANGED <<now, pc, local>>

NextOwner ==
    \E p \in Principals, payload_owner \in PayloadOwners,
       draft_request_id \in {NoRequest} \cup RequestIds :
         SubmitPayload(p, payload_owner, draft_request_id)

SpecOwner == Init /\ [][NextOwner]_vars

(***************************************************************************)
(* SpecLookup: api_datarequest_resubmission_id_get called once, after      *)
(* submissions by res and m1 whose form data name a previous request: an   *)
(* existing one, or one that has no collection (the form data of a draft   *)
(* are not looked at).                                                     *)
(***************************************************************************)
ERR_METADATA_READ == "metadata_read_error: Not exactly 1 match"

UnknownRequest == MaxRequests + 1

\* the rows of the query: the requests whose datarequest.json carries the
\* attribute previous_request_id with the value asked for
resubmission_query(S, request_id) ==
    {r \in Existing(S) : S.data[r].previous_request_id = request_id}

\* A variant that returns one of the rows when there are several.
api_datarequest_resubmission_id_get_any(S, request_id) ==
    LET coll_path == resubmission_query(S, request_id) IN
    IF Cardinality(coll_path) >= 1
    THEN <<Returned, CHOOSE r \in coll_path : TRUE>>
    ELSE <<ERR_METADATA_READ, NoRequest>>

api_datarequest_resubmission_id_get(S, request_id) ==
    LET coll_path == resubmission_query(S, request_id) IN
    IF Cardinality(coll_path) = 1
    THEN <<Returned, CHOOSE r \in coll_path : TRUE>>
    ELSE <<ERR_METADATA_READ, NoRequest>>

LookupSubmitters == {"res", "m1"}

SubmitNaming(p, draft_request_id, previous_request_id) ==
    /\ ret = <<>>
    /\ draft_request_id \in {NoRequest} \cup Existing(Cur)
    /\ draft_request_id = NoRequest => generate_request_id(Cur) <= MaxRequests
    /\ draft_request_id # NoRequest =>
            /\ statusAvu[draft_request_id] = {"DRAFT"}
            /\ data[draft_request_id].owner = p
    /\ previous_request_id # NoRequest => previous_request_id # SubmitTarget(draft_request_id)
    /\ \E draft \in BOOLEAN, attachments \in {"Yes", "No"} :
          Commit(api_datarequest_submit(Cur, p, draft, draft_request_id, OTHER_PURPOSE,
                                        attachments, previous_request_id, now))
    /\ UNCHANGED misuse
    /\ Rest

ResubmissionIdGet(request_id) ==
    /\ ret = <<>>
    /\ args' = <<request_id>>
    /\ ret' = <<api_datarequest_resubmission_id_get(Cur, request_id)>>
    /\ UNCHANGED <<store, now, pc, local, misuse>>

NextLookup ==
    \/ \E p \in LookupSubmitters, draft_request_id \in {NoRequest} \cup RequestIds,
          previous_request_id \in {NoRequest, UnknownRequest} \cup RequestIds :
            SubmitNaming(p, draft_request_id, previous_request_id)
    \/ \E request_id \in RequestIds \cup {UnknownRequest} : ResubmissionIdGet(request_id)

SpecLookup == Init /\ [][NextLookup]_vars

(***************************************************************************)
(* Properties.                                                             *)
(***************************************************************************)
\* The edge table of the status graph, source -> destinations, as the
\* specification lists it.
StatusGraph ==
    [s \in status |->
        CASE s = "IN_SUBMISSION" ->
                {"DRAFT", "PENDING_ATTACHMENTS", "DAO_SUBMITTED", "SUBMITTED"}
          [] s = "DRAFT" -> {"PENDING_ATTACHMENTS", "DAO_SUBMITTED", "SUBMITTED"}
          [] s = "PENDING_ATTACHMENTS" -> {"SUBMITTED"}
          [] s = "DAO_SUBMITTED" -> {"DAO_APPROVED", "REJECTED", "RESUBMIT"}
          [] s = "SUBMITTED" ->
                {"PRELIMINARY_ACCEPT", "PRELIMINARY_REJECT", "PRELIMINARY_RESUBMIT"}
          [] s = "PRELIMINARY_ACCEPT" ->
                {"DATAMANAGER_ACCEPT", "DATAMANAGER_REJECT", "DATAMANAGER_RESUBMIT"}
          [] s \in {"DATAMANAGER_ACCEPT", "DATAMANAGER_REJECT", "DATAMANAGER_RESUBMIT"} ->
                {"UNDER_REVIEW", "REJECTED_AFTER_DATAMANAGER_REVIEW",
                 "RESUBMIT_AFTER_DATAMANAGER_REVIEW"}
          [] s = "UNDER_REVIEW" -> {"REVIEWED"}
          [] s = "REVIEWED" -> {"APPROVED", "REJECTED", "RESUBMIT"}
          [] s \in {"RESUBMIT", "PRELIMINARY_RESUBMIT",
                    "RESUBMIT_AFTER_DATAMANAGER_REVIEW"} -> {"RESUBMITTED"}
          [] s = "APPROVED" -> {"PREREGISTRATION_SUBMITTED"}
          [] s = "PREREGISTRATION_SUBMITTED" -> {"PREREGISTRATION_CONFIRMED"}
          [] s \in {"PREREGISTRATION_CONFIRMED", "DAO_APPROVED"} -> {"DTA_READY"}
          [] s = "DTA_READY" -> {"DTA_SIGNED"}
          [] s = "DTA_SIGNED" -> {"DATA_READY"}
          [] OTHER -> {}]

\* The status a set of status rows stands for.
StatusOfRows(rows) == IF rows = {} THEN "IN_SUBMISSION" ELSE CHOOSE s \in rows : TRUE

\* The log with one more timestamp.
LogWith(log, s, t) == [k \in DOMAIN log \cup {s} |-> IF k = s THEN t ELSE log[k]]

\* C1: whenever a step of any operation changes the status of a request,
\* the request has exactly one status afterwards and the pair (status before,
\* status after) is an edge of the status graph.
StatusWritesFollowEdges ==
    [][\A r \in RequestIds :
          statusAvu'[r] # statusAvu[r] =>
              /\ Cardinality(statusAvu'[r]) = 1
              /\ StatusOfRows(statusAvu'[r]) \in StatusGraph[StatusOfRows(statusAvu[r])]]_vars

\* A request that was reviewed, sent back and marked as resubmitted, in a
\* run in which a call was made that its permission check refused.
StatusWritesFollowEdgesWitness ==
    \E r \in RequestIds :
        /\ statusAvu[r] = {"RESUBMITTED"}
        /\ "REVIEWED" \in DOMAIN provenance[r]
        /\ misuse > 0

\* C2: a call of a workflow operation whose permission check returns an
\* error leaves the store as it was: status, stage documents, pending and
\* completed reviewers, review deadline and provenance log. (The review of
\* an assignee of a request under review and the evaluation of a DAO
\* request by a project manager, which the workflow needs although the
\* check's arguments rule them out, are not counted.)
PermissionErrorChangesNothing ==
    [][\A p \in Principals, r \in RequestIds :
          /\ (AttachmentsSubmit(p, r) /\ attachments_submit_permitted(Cur, p, r) # "True")
                => UNCHANGED store
          /\ (PreliminaryReviewSubmit(p, r)
                /\ preliminary_review_submit_permitted(Cur, p, r) # "True")
                => UNCHANGED store
          /\ (DatamanagerReviewSubmit(p, r)
                /\ datamanager_review_submit_permitted(Cur, p, r) # "True")
                => UNCHANGED store
          /\ (AssignmentSubmit(p, r) /\ assignment_submit_permitted(Cur, p, r) # "True")
                => UNCHANGED store
          /\ (ReviewSubmit(p, r) /\ review_submit_permitted(Cur, p, r) # "True"
                /\ ~(p \in assignedForReview[r] /\ statusAvu[r] = {"UNDER_REVIEW"}))
                => UNCHANGED store
          /\ (EvaluationSubmit(p, r) /\ evaluation_submit_permitted(Cur, p, r) # "True"
                /\ ~(p \in GROUP_PM /\ statusAvu[r] = {"DAO_SUBMITTED"}))
                => UNCHANGED store
          /\ (PreregistrationSubmit(p, r)
                /\ preregistration_submit_permitted(Cur, p, r) # "True")
                => UNCHANGED store
          /\ (PreregistrationConfirm(p, r)
                /\ preregistration_confirm_permitted(Cur, p, r) # "True")
                => UNCHANGED store
          /\ (DtaPostUploadActions(p, r)
                /\ dta_post_upload_actions_permitted(Cur, p, r) # "True")
                => UNCHANGED store
          /\ (SignedDtaPostUploadActions(p, r)
                /\ signed_dta_post_upload_actions_permitted(Cur, p, r) # "True")
                => UNCHANGED store
          /\ (DataReady(p, r) /\ data_ready_permitted(Cur, p, r) # "True")
                => UNCHANGED store]_vars

\* C3: status_transition_allowed(current, new) is true exactly when new is
\* a destination of current in the edge table, and so false for every pair
\* (s, s).
TransitionAllowedIsEdgeTable ==
    ret # <<>> =>
        /\ ret[1] <=> (args[2] \in StatusGraph[args[1]])
        /\ args[1] = args[2] => ~ret[1]

\* The call has answered for a pair (s, s).
TransitionAllowedIsEdgeTableWitness ==
    ret = <<FALSE>> /\ args = <<"DRAFT", "DRAFT">>

\* C4: the provenance log of a request is changed only by a step that
\* changes its status, and then by exactly one new key: the status entered,
\* with the time of the step. So the log holds one timestamp for every
\* status the request has entered and none for any other status.
ProvenanceFollowsStatus ==
    [][\A r \in RequestIds :
          /\ statusAvu[r] \subseteq DOMAIN provenance[r]
          /\ statusAvu'[r] \subseteq DOMAIN provenance'[r]
          /\ IF statusAvu'[r] # statusAvu[r]
             THEN /\ statusAvu'[r] \cap DOMAIN provenance[r] = {}
                  /\ provenance'[r] =
                        LogWith(provenance[r], StatusOfRows(statusAvu'[r]), now)
             ELSE provenance'[r] = provenance[r]]_vars

\* A request saved as a draft, submitted, and set to REVIEWED by the sweep
\* two days later with a reviewer still pending.
ProvenanceFollowsStatusWitness ==
    \E r \in RequestIds :
        /\ statusAvu[r] = {"REVIEWED"}
        /\ assignedForReview[r] # {}
        /\ "DRAFT" \in DOMAIN provenance[r]
        /\ "REVIEWED" \in DOMAIN provenance[r]
        /\ provenance[r]["REVIEWED"] > provenance[r]["UNDER_REVIEW"]

\* C5: a call of datarequest_provenance_write for a status that has a
\* timestamp in the log returns the duplicate timestamp error and leaves
\* the log as it was, whatever the time of the call.
DuplicateTimestampRejected ==
    [][\A s \in ProvStatuses :
          (ProvenanceWrite(1, s) /\ s \in DOMAIN provenance[1]) =>
              /\ ret' = <<ERR_TIMESTAMPED>>
              /\ provenance' = provenance]_vars

\* The second call has been made, later than the first.
DuplicateTimestampRejectedWitness ==
    /\ ret = <<ERR_TIMESTAMPED>>
    /\ args = <<1, "SUBMITTED">>
    /\ provenance[1]["SUBMITTED"] < now

\* C6: when the two pending reviewers of a request have both finished their
\* review submission, however the steps of the two calls were interleaved,
\* exactly one of them has seen an empty list after removing itself, the
\* pending set is empty and the status is REVIEWED with one timestamp.
ConcurrentReviewsEndReviewed ==
    (pc["m1"] = "done" /\ pc["m2"] = "done") =>
        /\ Cardinality({p \in {"m1", "m2"} : local[p][2] = {}}) = 1
        /\ assignedForReview[1] = {}
        /\ statusAvu[1] = {"REVIEWED"}
        /\ "REVIEWED" \in DOMAIN provenance[1]

\* C7: the pending and the completed reviewers of a request are disjoint,
\* the completed set never shrinks and no completed reviewer is pending
\* again.
ReviewerSetsPartition ==
    [][\A r \in RequestIds :
          /\ assignedForReview[r] \cap reviewedBy[r] = {}
          /\ assignedForReview'[r] \cap reviewedBy'[r] = {}
          /\ reviewedBy[r] \subseteq reviewedBy'[r]
          /\ reviewedBy[r] \cap assignedForReview'[r] = {}]_vars

\* C8: after the review submission of a pending reviewer the status is
\* REVIEWED if and only if no reviewer is pending any more.
ReviewedIffPendingEmpty ==
    [][\A p \in Principals, r \in RequestIds :
          (ReviewSubmit(p, r) /\ p \in assignedForReview[r]) =>
              (statusAvu'[r] = {"REVIEWED"} <=> assignedForReview'[r] = {})]_vars

\* A step of the sweep: the whole run or one pass of its loop.
SweepStep == ExpirationCheck \/ \E r \in RequestIds : SweepProcess(r)

\* C9: a step of the sweep changes a status only from UNDER_REVIEW to
\* REVIEWED, an edge of the status graph, and only together with a REVIEWED
\* timestamp that the log did not have; a request whose status it does not
\* change keeps its log.
SweepUsesGuardedTransition ==
    [][SweepStep =>
          \A r \in RequestIds :
              IF statusAvu'[r] # statusAvu[r]
              THEN /\ statusAvu[r] = {"UNDER_REVIEW"}
                   /\ statusAvu'[r] = {"REVIEWED"}
                   /\ "REVIEWED" \in StatusGraph["UNDER_REVIEW"]
                   /\ "REVIEWED" \notin DOMAIN provenance[r]
                   /\ provenance'[r] = LogWith(provenance[r], "REVIEWED", now)
              ELSE provenance'[r] = provenance[r]]_vars

\* The sweep has set a request to REVIEWED that nobody had reviewed.
SweepUsesGuardedTransitionWitness ==
    \E r \in RequestIds :
        /\ statusAvu[r] = {"REVIEWED"}
        /\ reviewedBy[r] = {}
        /\ provenance[r]["REVIEWED"] > endOfReviewPeriod[r]

\* The review period of the request has elapsed.
Elapsed(r) ==
    /\ statusAvu[r] = {"UNDER_REVIEW"}
    /\ endOfReviewPeriod[r] # NoDeadline
    /\ endOfReviewPeriod[r] < now

\* C10: a run of the sweep sets every request under review whose period
\* has elapsed to REVIEWED, with a REVIEWED timestamp, and no step of the
\* sweep (a later run, or a pass of a run working on an old query result)
\* writes the status or the log of a request that is REVIEWED already.
SweepIdempotent ==
    [][/\ ExpirationCheck =>
             \A r \in RequestIds :
                 Elapsed(r) => /\ statusAvu'[r] = {"REVIEWED"}
                               /\ "REVIEWED" \in DOMAIN provenance'[r]
       /\ SweepStep =>
             \A r \in RequestIds :
                 statusAvu[r] = {"REVIEWED"} =>
                     /\ statusAvu'[r] = statusAvu[r]
                     /\ provenance'[r] = provenance[r]]_vars

\* A run of the sweep that has set a request nobody had reviewed to
\* REVIEWED and still has a request on its list that is REVIEWED by now.
SweepIdempotentWitness ==
    /\ pc[Sweeper] = "process"
    /\ \E r \in local[Sweeper][1] : statusAvu[r] = {"REVIEWED"}
    /\ \E q \in RequestIds :
          /\ statusAvu[q] = {"REVIEWED"}
          /\ reviewedBy[q] = {}
          /\ q \notin local[Sweeper][1]

\* C11: a submission with the DAO purpose by a researcher, of a new request
\* or of a draft of theirs, leaves the request DAO_SUBMITTED; the evaluation
\* "Approved" of a DAO_SUBMITTED request by a project manager passes the
\* permission check of the evaluation and leaves the request DAO_APPROVED,
\* not APPROVED.
DaoRequestApprovedAsDao ==
    [][\A p \in Principals, r \in RequestIds :
          /\ \A d \in {NoRequest, r} :
                (/\ Submit(p, d, NoRequest)
                 /\ SubmitExpected(p, d, NoRequest) = "True"
                 /\ p \notin GROUP_PM \cup GROUP_DM
                 /\ r = (IF d = NoRequest THEN generate_request_id(Cur) ELSE d)
                 /\ data'[r].purpose = DAO_PURPOSE /\ ~data'[r].draft)
                => statusAvu'[r] = {"DAO_SUBMITTED"}
          /\ (/\ p \in GROUP_PM
              /\ statusAvu[r] = {"DAO_SUBMITTED"}
              /\ EvaluationSubmit(p, r)
              /\ \E approval_conditions \in ApprovalConditions :
                    Commit(api_datarequest_evaluation_submit(
                               Cur, p, r, "Approved", approval_conditions, now)))
                => /\ evaluation_submit_permitted(Cur, p, r) = "True"
                   /\ statusAvu'[r] = {"DAO_APPROVED"}]_vars

\* The status alone: the evaluation "Approved" of a DAO_SUBMITTED request
\* by a project manager leaves it DAO_APPROVED.
DaoEvaluationLeavesDaoApproved ==
    [][\A p \in Principals, r \in RequestIds :
          (/\ p \in GROUP_PM
           /\ statusAvu[r] = {"DAO_SUBMITTED"}
           /\ EvaluationSubmit(p, r)
           /\ \E approval_conditions \in ApprovalConditions :
                 Commit(api_datarequest_evaluation_submit(
                            Cur, p, r, "Approved", approval_conditions, now)))
             => statusAvu'[r] = {"DAO_APPROVED"}]_vars

\* The role set of a principal on a request, as the specification defines
\* it: PM, DM, DAC by group membership, OWN for the owner, REV for pending
\* and completed reviewers, PENREV for pending reviewers.
RolesFor(p, r) ==
    {x \in {"PM", "DM", "DAC", "OWN", "REV", "PENREV"} :
        \/ x = "PM" /\ p \in GROUP_PM
        \/ x = "DM" /\ p \in GROUP_DM
        \/ x = "DAC" /\ p \in GROUP_DAC
        \/ x = "OWN" /\ data[r] # NoData /\ data[r].owner = p
        \/ x = "REV" /\ p \in assignedForReview[r] \cup reviewedBy[r]
        \/ x = "PENREV" /\ p \in assignedForReview[r]}

\* The status check of a call refuses: statuses are given and the one
\* status of the request is not among them.
StatusRefused(r, statuses) ==
    /\ statuses # AnyStatus
    /\ Cardinality(statusAvu[r]) <= 1
    /\ StatusOfRows(statusAvu[r]) \notin statuses

\* The lookups of a call of the check succeed: the request can be read and,
\* when statuses are given, it has at most one status row.
LookupsSucceed(r, statuses) ==
    /\ data[r] # NoData
    /\ statuses # AnyStatus => Cardinality(statusAvu[r]) <= 1

RoleErrorWhateverStatus ==
    (/\ ret # <<>>
     /\ LookupsSucceed(args[2], args[4])
     /\ RolesFor(args[1], args[2]) \cap args[3] = {})
        => ret[1] = PERMISSION_ROLE

\* C13: a caller with none of the roles is never let through: the check
\* returns the illegal status error when statuses are given and the status
\* is not among them, and the insufficient permissions error otherwise.
RoleErrorUnlessStatusError ==
    (/\ ret # <<>>
     /\ LookupsSucceed(args[2], args[4])
     /\ RolesFor(args[1], args[2]) \cap args[3] = {})
        => /\ ret[1] \in {PERMISSION_STATUS, PERMISSION_ROLE}
           /\ ret[1] = PERMISSION_STATUS <=> StatusRefused(args[2], args[4])

\* A caller with none of the roles, on a request whose status is not among
\* the statuses, has got the illegal status error.
RoleErrorUnlessStatusErrorWitness ==
    /\ ret = <<PERMISSION_STATUS>>
    /\ args[1] = "res" /\ args[3] = {"PM"} /\ args[4] = {"SUBMITTED"}
    /\ data[args[2]].owner # "res"
    /\ statusAvu[args[2]] = {"REVIEWED"}

InvalidDecisionChangesNothing ==
    [][\A p \in Principals, r \in RequestIds :
          /\ (/\ preliminary_review_submit_permitted(Cur, p, r) = "True"
              /\ PreliminaryReviewSubmit(p, r)
              /\ Commit(api_datarequest_preliminary_review_submit(
                            Cur, p, r, "Invalid", now)))
                => UNCHANGED store
          /\ (/\ datamanager_review_submit_permitted(Cur, p, r) = "True"
              /\ DatamanagerReviewSubmit(p, r)
              /\ Commit(api_datarequest_datamanager_review_submit(
                            Cur, p, r, "Invalid", now)))
                => UNCHANGED store
          /\ (/\ assignment_submit_permitted(Cur, p, r) = "True"
              /\ AssignmentSubmit(p, r)
              /\ \E assign_to \in AssigneeSets, review_period_length \in ReviewPeriods :
                    Commit(api_datarequest_assignment_submit(
                               Cur, p, r, "Invalid", assign_to, review_period_length, now)))
                => UNCHANGED store
          /\ (/\ evaluation_submit_permitted(Cur, p, r) = "True"
              /\ EvaluationSubmit(p, r)
              /\ \E approval_conditions \in ApprovalConditions :
                    Commit(api_datarequest_evaluation_submit(
                               Cur, p, r, "Invalid", approval_conditions, now)))
                => UNCHANGED store]_vars

\* The statuses one transition of status_transitions leads to from a set.
Successors(from) ==
    {status_transitions[i][2] : i \in {j \in DOMAIN status_transitions :
                                          status_transitions[j][1] \in from}}

RECURSIVE ReachableFrom(_)
\* from, and every status that transitions of the table lead to from there
ReachableFrom(from) ==
    IF Successors(from) \subseteq from THEN from
    ELSE ReachableFrom(from \cup Successors(from))

\* No transition of the table starts at a status its destination leads
\* back to: no self-loop, no cycle.
StatusGraphAcyclic ==
    \A i \in DOMAIN status_transitions :
        status_transitions[i][1] \notin ReachableFrom({status_transitions[i][2]})

\* The number of statuses that can be reached from a status.
Rank == [s \in status |-> Cardinality(ReachableFrom({s}))]

\* C16: the table of transitions has no self-loop and no cycle, and every
\* step that changes the status of a request takes it to a status it has
\* not held before, from which fewer statuses can be reached: a request
\* holds each status at most once and makes finitely many transitions.
StatusesHeldOnce ==
    [][\A r \in RequestIds :
          statusAvu'[r] # statusAvu[r] =>
              /\ StatusGraphAcyclic
              /\ StatusOfRows(statusAvu'[r]) \notin DOMAIN provenance[r]
              /\ StatusOfRows(statusAvu'[r]) # "IN_SUBMISSION"
              /\ Rank[StatusOfRows(statusAvu'[r])] < Rank[StatusOfRows(statusAvu[r])]]_vars

\* A request that has gone the longest way through the graph: saved as a
\* draft, submitted with attachments, reviewed, approved, preregistered and
\* its data made ready.
StatusesHeldOnceWitness ==
    \E r \in RequestIds :
        /\ statusAvu[r] = {"DATA_READY"}
        /\ {"DRAFT", "PENDING_ATTACHMENTS", "REVIEWED", "PREREGISTRATION_CONFIRMED"}
              \subseteq DOMAIN provenance[r]

\* The statuses the specification calls terminal.
TerminalStatuses ==
    {"RESUBMITTED", "DATA_READY", "PRELIMINARY_REJECT", "REJECTED",
     "REJECTED_AFTER_DATAMANAGER_REVIEW"}

\* C17: no step of any call or of the sweep changes the status rows of a
\* request that is RESUBMITTED, DATA_READY, PRELIMINARY_REJECT, REJECTED or
\* REJECTED_AFTER_DATAMANAGER_REVIEW.
TerminalStatusStays ==
    [][\A r \in RequestIds :
          (\E s \in TerminalStatuses : statusAvu[r] = {s})
              => statusAvu'[r] = statusAvu[r]]_vars

\* A request has been submitted that names a request as previous request
\* whose data was ready, and got its status.
TerminalStatusStaysWitness ==
    \E r \in RequestIds :
        /\ data[r].previous_request_id = TerminalRequest
        /\ r # TerminalRequest
        /\ statusAvu[r] = {"SUBMITTED"}
        /\ statusAvu[TerminalRequest] = {"DATA_READY"}
        /\ now > 0

\* The elements of a list.
Range(list) == {list[i] : i \in DOMAIN list}

\* The one role whose allow-list applies, by the precedence
\* OWN > PM > DM > REV; no role for a caller who holds none of the four.
BestRole(roles) ==
    IF "OWN" \in roles THEN {"OWN"}
    ELSE IF "PM" \in roles THEN {"PM"}
    ELSE IF "DM" \in roles THEN {"DM"}
    ELSE IF "REV" \in roles THEN {"REV"}
    ELSE {}

\* The documents in the allow-list of the role whose list applies.
AllowList(roles) == UNION {Range(allowed_documents({b})) : b \in BestRole(roles)}

\* C18: for every type, status and caller, available_documents_get returns
\* the documents that exist at (type, status) and are in the allow-list of
\* the one role chosen by the precedence OWN > PM > DM > REV among the
\* roles of the caller, in the order of the list of existing documents.
AvailableDocumentsAsSpecified ==
    (Len(args) = 4 /\ ret # <<>> /\ data[args[2]] # NoData) =>
        /\ ret[1] = Returned
        /\ ret[2] = SelectSeq(existing_documents(args[3], args[4]),
                              LAMBDA value : value \in AllowList(RolesFor(args[1], args[2])))

\* The same for the callers who hold at least one of OWN, PM, DM, REV.
AvailableDocumentsForRoleHolders ==
    (/\ Len(args) = 4 /\ ret # <<>> /\ data[args[2]] # NoData
     /\ BestRole(RolesFor(args[1], args[2])) # {}) =>
        /\ ret[1] = Returned
        /\ ret[2] = SelectSeq(existing_documents(args[3], args[4]),
                              LAMBDA value : value \in AllowList(RolesFor(args[1], args[2])))

RolesAsSpecified ==
    [][\A p \in Callers, r \in RequestIds :
          /\ (RolesGet(p, r) /\ data[r] # NoData) =>
                LET roles == ret'[2]
                IN  /\ ret'[1] = Returned
                    /\ "OWN" \in roles <=> data[r].owner = p
                    /\ "REV" \in roles <=> p \in assignedForReview[r] \cup reviewedBy[r]
                    /\ "PENREV" \in roles <=> p \in assignedForReview[r]
                    /\ "PENREV" \in roles => "REV" \in roles
          /\ (p \in Principals /\ p \in assignedForReview[r] /\ ReviewSubmit(p, r)) =>
                /\ p \in reviewedBy'[r] \ assignedForReview'[r]
                /\ "REV" \in datarequest_roles_get(Cur, p, r)'
                /\ "PENREV" \notin datarequest_roles_get(Cur, p, r)']_vars

\* A reviewer who has submitted their review has got the roles DAC and REV.
RolesAsSpecifiedWitness ==
    /\ Len(args) = 2 /\ ret = <<Returned, {"DAC", "REV"}>>
    /\ args[1] = "m1"
    /\ args[2] \in RequestIds
    /\ REVIEW \in docs[args[2]]
    /\ reviewedBy[args[2]] = {"m1"}
    /\ {"UNDER_REVIEW", "REVIEWED"} \subseteq DOMAIN provenance[args[2]]

\* C21: datarequest_roles_get called without a request id returns exactly
\* the roles the group membership of the caller gives, a subset of
\* {PM, DM, DAC}: never OWN, REV or PENREV, whatever requests the store
\* holds and whoever owns or reviews them.
RolesWithoutRequest ==
    (Len(args) = 2 /\ ret # <<>> /\ args[2] = NoRequest) =>
        /\ ret[1] = Returned
        /\ ret[2] \subseteq {"PM", "DM", "DAC"}
        /\ ret[2] = {x \in {"PM", "DM", "DAC"} :
                        \/ x = "PM" /\ args[1] \in GROUP_PM
                        \/ x = "DM" /\ args[1] \in GROUP_DM
                        \/ x = "DAC" /\ args[1] \in GROUP_DAC}

\* A DAC member who owns a request, asked without a request id, has got the
\* role DAC alone, while a pending reviewer works on the request.
RolesWithoutRequestWitness ==
    /\ Len(args) = 2 /\ ret = <<Returned, {"DAC"}>>
    /\ args = <<"m1", NoRequest>>
    /\ \E r \in RequestIds : data[r].owner = "m1" /\ assignedForReview[r] # {}

\* The status a non-draft submission asks for, from the form alone.
SubmitStatus(purpose, attachments) ==
    IF purpose = DAO_PURPOSE THEN "DAO_SUBMITTED"
    ELSE IF attachments = "Yes" THEN "PENDING_ATTACHMENTS"
    ELSE "SUBMITTED"

\* A step is the non-draft submission with these arguments, by a caller the
\* submission is not refused to.
NonDraftSubmit(p, draft_request_id, previous_request_id, purpose, attachments) ==
    /\ p \notin GROUP_PM \cup GROUP_DM
    /\ draft_request_id \in {NoRequest} \cup Existing(Cur)
    /\ previous_request_id \in {NoRequest} \cup Existing(Cur)
    /\ draft_request_id = NoRequest => generate_request_id(Cur) <= MaxNew
    /\ data'[SubmitTarget(draft_request_id)] =
          [owner |-> p, draft |-> FALSE, purpose |-> purpose,
           previous_request_id |-> previous_request_id]
    /\ Commit(api_datarequest_submit(Cur, p, FALSE, draft_request_id, purpose,
                                     attachments, previous_request_id, now))
    /\ Submit(p, draft_request_id, previous_request_id)

SubmitOfNewOrDraftFromPayload ==
    [][\A p \in Principals, draft_request_id \in {NoRequest} \cup RequestIds,
          previous_request_id \in {NoRequest} \cup RequestIds,
          purpose \in Purposes, attachments \in {"Yes", "No"} :
            (/\ draft_request_id # NoRequest => statusAvu[draft_request_id] = {"DRAFT"}
             /\ NonDraftSubmit(p, draft_request_id, previous_request_id, purpose, attachments))
            => statusAvu'[SubmitTarget(draft_request_id)] =
                     {SubmitStatus(purpose, attachments)}]_vars

SubmittedStatuses == {"SUBMITTED", "DAO_SUBMITTED", "PENDING_ATTACHMENTS"}
ResubmitStatuses == {"RESUBMIT", "PRELIMINARY_RESUBMIT", "RESUBMIT_AFTER_DATAMANAGER_REVIEW"}

\* Request r is marked RESUBMITTED in this step.
MarkedResubmitted(r) ==
    statusAvu[r] # {"RESUBMITTED"} /\ statusAvu'[r] = {"RESUBMITTED"}

\* C23: whenever a request is marked RESUBMITTED, it was in RESUBMIT,
\* PRELIMINARY_RESUBMIT or RESUBMIT_AFTER_DATAMANAGER_REVIEW, and the
\* submission that marks it has a new request that has reached SUBMITTED,
\* DAO_SUBMITTED or PENDING_ATTACHMENTS already.
PreviousMarkedAfterNewStatus ==
    [][\A r \in RequestIds : MarkedResubmitted(r) =>
          /\ statusAvu[r] \subseteq ResubmitStatuses
          /\ \E p \in Submitters :
                /\ pc[p] = "previous" /\ pc'[p] = "status" /\ local[p][5] = r
                /\ statusAvu'[local[p][1]] # {}
                /\ statusAvu'[local[p][1]] \subseteq SubmittedStatuses]_vars

\* A request is marked RESUBMITTED only from RESUBMIT, PRELIMINARY_RESUBMIT
\* or RESUBMIT_AFTER_DATAMANAGER_REVIEW.
PreviousMarkedFromResubmitOnly ==
    [][\A r \in RequestIds : MarkedResubmitted(r) =>
          statusAvu[r] # {} /\ statusAvu[r] \subseteq ResubmitStatuses]_vars

\* The submissions whose collection has been created.
Created == {p \in Submitters : pc[p] \in {"previous", "status", "done"}}

\* No two submissions have created their request under the same id.
CreatedIdsDiffer ==
    \A p, q \in Created : p # q => local[p][1] # local[q][1]

\* C24: no two submissions have created their request under the same id,
\* and the id a submission has generated and is about to create its
\* collection under is greater than every id in use.
RequestIdsUniqueAndNew ==
    /\ CreatedIdsDiffer
    /\ \A p \in Submitters :
          pc[p] = "create" => \A r \in Existing(Cur) : local[p][1] > r

\* C25: available_documents_get, called for a request that exists, returns
\* a list for every caller, whatever roles the caller holds: it never ends
\* in an exception.
AvailableDocumentsReturnsList ==
    (Len(args) = 4 /\ ret # <<>> /\ data[args[2]] # NoData) =>
        (ret[1] = Returned /\ ret[1] \notin {NameError, UUError})

\* The rows of the operation table after Submit: the value of the
\* permission check for caller p on request r, and the statuses the
\* operation passes to status_set, given the current status.
PermittedRow(op, p, r) ==
    CASE op = "attachments" -> attachments_submit_permitted(Cur, p, r)
      [] op = "preliminary_review" -> preliminary_review_submit_permitted(Cur, p, r)
      [] op = "datamanager_review" -> datamanager_review_submit_permitted(Cur, p, r)
      [] op = "assignment" -> assignment_submit_permitted(Cur, p, r)
      [] op = "review" -> review_submit_permitted(Cur, p, r)
      [] op = "evaluation" -> evaluation_submit_permitted(Cur, p, r)
      [] op = "preregistration_submit" -> preregistration_submit_permitted(Cur, p, r)
      [] op = "preregistration_confirm" -> preregistration_confirm_permitted(Cur, p, r)
      [] op = "dta_upload" -> dta_post_upload_actions_permitted(Cur, p, r)
      [] op = "signed_dta_upload" -> signed_dta_post_upload_actions_permitted(Cur, p, r)
      [] op = "data_ready" -> data_ready_permitted(Cur, p, r)

DestinationsRow(op, current) ==
    CASE op = "attachments" -> {"SUBMITTED"}
      [] op = "preliminary_review" ->
            {"PRELIMINARY_ACCEPT", "PRELIMINARY_REJECT", "PRELIMINARY_RESUBMIT"}
      [] op = "datamanager_review" ->
            {"DATAMANAGER_ACCEPT", "DATAMANAGER_REJECT", "DATAMANAGER_RESUBMIT"}
      [] op = "assignment" ->
            {"UNDER_REVIEW", "REJECTED_AFTER_DATAMANAGER_REVIEW",
             "RESUBMIT_AFTER_DATAMANAGER_REVIEW"}
      [] op = "review" -> {"REVIEWED"}
      [] op = "evaluation" ->
            {IF current = "DAO_SUBMITTED" THEN "DAO_APPROVED" ELSE "APPROVED",
             "REJECTED", "RESUBMIT"}
      [] op = "preregistration_submit" -> {"PREREGISTRATION_SUBMITTED"}
      [] op = "preregistration_confirm" -> {"PREREGISTRATION_CONFIRMED"}
      [] op = "dta_upload" -> {"DTA_READY"}
      [] op = "signed_dta_upload" -> {"DTA_SIGNED"}
      [] op = "data_ready" -> {"DATA_READY"}

Rows ==
    {"attachments", "preliminary_review", "datamanager_review", "assignment", "review",
     "evaluation", "preregistration_submit", "preregistration_confirm", "dta_upload",
     "signed_dta_upload", "data_ready"}

\* For the operations ops: where the permission check passes, every status
\* the operation can pass to status_set is one step along the graph.
PermittedRowsLegal(ops) ==
    \A op \in ops, p \in Principals, r \in Existing(Cur) :
        PermittedRow(op, p, r) = "True" =>
            \A to \in DestinationsRow(op, status_get(Cur, r)) :
                status_transition_allowed(status_get(Cur, r), to)

\* C26: for every operation with a permission check, whenever the check
\* passes, every destination status the operation can pick is an edge of
\* status_transitions from the current status.
PermittedTransitionsLegal == PermittedRowsLegal(Rows)

\* The same for every operation but the DTA upload.
PermittedTransitionsLegalButDtaUpload == PermittedRowsLegal(Rows \ {"dta_upload"})

\* A step of one of the operations that changes the status leaves the
\* request in a status of its row.
DestinationsAreRows ==
    [][\A r \in RequestIds : statusAvu'[r] # statusAvu[r] =>
         /\ (\E p \in Principals : AttachmentsSubmit(p, r)) =>
                statusAvu'[r] \subseteq DestinationsRow("attachments", status_get(Cur, r))
         /\ (\E p \in Principals : PreliminaryReviewSubmit(p, r)) =>
                statusAvu'[r] \subseteq DestinationsRow("preliminary_review", status_get(Cur, r))
         /\ (\E p \in Principals : DatamanagerReviewSubmit(p, r)) =>
                statusAvu'[r] \subseteq DestinationsRow("datamanager_review", status_get(Cur, r))
         /\ (\E p \in Principals : AssignmentSubmit(p, r)) =>
                statusAvu'[r] \subseteq DestinationsRow("assignment", status_get(Cur, r))
         /\ (\E p \in Principals : ReviewSubmit(p, r)) =>
                statusAvu'[r] \subseteq DestinationsRow("review", status_get(Cur, r))
         /\ (\E p \in Principals : EvaluationSubmit(p, r)) =>
                statusAvu'[r] \subseteq DestinationsRow("evaluation", status_get(Cur, r))
         /\ (\E p \in Principals : PreregistrationSubmit(p, r)) =>
                statusAvu'[r] \subseteq DestinationsRow("preregistration_submit", status_get(Cur, r))
         /\ (\E p \in Principals : PreregistrationConfirm(p, r)) =>
                statusAvu'[r] \subseteq DestinationsRow("preregistration_confirm", status_get(Cur, r))
         /\ (\E p \in Principals : DtaPostUploadActions(p, r)) =>
                statusAvu'[r] \subseteq DestinationsRow("dta_upload", status_get(Cur, r))
         /\ (\E p \in Principals : SignedDtaPostUploadActions(p, r)) =>
                statusAvu'[r] \subseteq DestinationsRow("signed_dta_upload", status_get(Cur, r))
         /\ (\E p \in Principals : DataReady(p, r)) =>
                statusAvu'[r] \subseteq DestinationsRow("data_ready", status_get(Cur, r))]_vars

\* The review submission of a pending reviewer takes that reviewer, and
\* nobody else, from the pending rows to the completed rows.
PendingReviewerMoves(p, r) ==
    /\ assignedForReview'[r] = assignedForReview[r] \ {p}
    /\ reviewedBy'[r] = reviewedBy[r] \cup {p}

\* C27: a review submission by a principal who is not in the pending rows
\* of the request changes nothing in the store (no review document, the
\* reviewer rows and the status as before); a submission by a pending
\* reviewer moves exactly that reviewer from pending to completed.
ReviewOfNonPendingChangesNothing ==
    [][\A r \in RequestIds, p \in Principals :
          /\ (p \notin assignedForReview[r] /\ ReviewSubmit(p, r)) => UNCHANGED store
          /\ (p \in assignedForReview[r] /\ ReviewSubmit(p, r)) => PendingReviewerMoves(p, r)]_vars

\* The half of it that is about pending reviewers; a submission that is not
\* from a pending reviewer leaves the reviewer rows and the status alone.
ReviewMovesPendingReviewerOnly ==
    [][\A r \in RequestIds, p \in Principals :
          /\ (p \notin assignedForReview[r] /\ ReviewSubmit(p, r)) =>
                UNCHANGED <<assignedForReview, reviewedBy, statusAvu, provenance>>
          /\ (p \in assignedForReview[r] /\ ReviewSubmit(p, r)) => PendingReviewerMoves(p, r)]_vars

AssignmentStatuses == {"DATAMANAGER_ACCEPT", "DATAMANAGER_REJECT", "DATAMANAGER_RESUBMIT"}

\* A step is the assignment with these arguments.
AssignmentStep(p, r, decision, assign_to, review_period_length) ==
    /\ r \in Existing(Cur)
    /\ assign_to # {}
    /\ ASSIGNMENT \in docs'[r]
    /\ Commit(api_datarequest_assignment_submit(Cur, p, r, decision, assign_to,
                                                review_period_length, now))
    /\ AssignmentSubmit(p, r)

\* What an assignment that passes its permission check leaves: accepted for
\* review, the assignees pending, nobody completed, the deadline the given
\* number of days ahead, the status UNDER_REVIEW; rejected or sent back, the
\* reviewer rows and the deadline as they were.
PermittedAssignmentWrites(p, r, decision, assign_to, review_period_length) ==
    /\ (decision = "Accepted for review" /\ assignment_submit_permitted(Cur, p, r) = "True") =>
          /\ assignedForReview'[r] = assign_to
          /\ reviewedBy'[r] = {}
          /\ endOfReviewPeriod'[r] = now + review_period_length * SecondsPerDay
          /\ statusAvu'[r] = {"UNDER_REVIEW"}
    /\ decision \in {"Rejected", "Rejected (resubmit)"} =>
          UNCHANGED <<assignedForReview, reviewedBy, endOfReviewPeriod>>

\* C28: an assignment accepted for review leaves the assignees pending,
\* nobody completed, the deadline review_period_length days after the
\* assignment and the status UNDER_REVIEW; an assignment writes reviewer rows
\* or a deadline only to a request in DATAMANAGER_ACCEPT, DATAMANAGER_REJECT
\* or DATAMANAGER_RESUBMIT; a rejecting assignment writes neither.
AssignmentWritesReviewers ==
    [][\A r \in RequestIds, p \in Principals, decision \in AssignmentDecisions,
          assign_to \in AssigneeSets, review_period_length \in ReviewPeriods :
            AssignmentStep(p, r, decision, assign_to, review_period_length) =>
              /\ PermittedAssignmentWrites(p, r, decision, assign_to, review_period_length)
              /\ (\/ assignedForReview'[r] # assignedForReview[r]
                  \/ reviewedBy'[r] # reviewedBy[r]
                  \/ endOfReviewPeriod'[r] # endOfReviewPeriod[r])
                 => status_get(Cur, r) \in AssignmentStatuses]_vars

\* The same for the assignments that pass their permission check.
PermittedAssignmentWritesReviewers ==
    [][\A r \in RequestIds, p \in Principals, decision \in AssignmentDecisions,
          assign_to \in AssigneeSets, review_period_length \in ReviewPeriods :
            AssignmentStep(p, r, decision, assign_to, review_period_length) =>
              PermittedAssignmentWrites(p, r, decision, assign_to, review_period_length)]_vars

\* C29: one run of the sweep sets the requests that are UNDER_REVIEW with a
\* deadline before now to REVIEWED, whoever is still pending, and leaves
\* their reviewer rows alone; every other request keeps its status, its
\* reviewer rows and its provenance log.
SweepChangesElapsedOnly ==
    [][ExpirationCheck =>
          \A r \in RequestIds :
              /\ assignedForReview'[r] = assignedForReview[r]
              /\ reviewedBy'[r] = reviewedBy[r]
              /\ IF Elapsed(r)
                 THEN statusAvu'[r] = {"REVIEWED"}
                 ELSE /\ statusAvu'[r] = statusAvu[r]
                      /\ provenance'[r] = provenance[r]]_vars

\* The sweep has set request 1 to REVIEWED while reviewers were pending;
\* request 2, reviewed before its deadline, which has passed since, has
\* kept the timestamp of that review.
SweepChangesElapsedOnlyWitness ==
    /\ statusAvu[1] = {"REVIEWED"} /\ assignedForReview[1] # {}
    /\ provenance[1]["REVIEWED"] > endOfReviewPeriod[1]
    /\ statusAvu[2] = {"REVIEWED"} /\ assignedForReview[2] = {}
    /\ provenance[2]["REVIEWED"] < endOfReviewPeriod[2]
    /\ endOfReviewPeriod[2] < now

\* When the submission of the last pending reviewer has finished, the
\* request is as after the sweep and the submission run one after the other:
\* REVIEWED, nobody pending, the reviewer completed.
LastReviewFinished ==
    (pc["m1"] = "done" /\ local["m1"][1] = LastReviewerRequest) =>
        /\ statusAvu[LastReviewerRequest] = {"REVIEWED"}
        /\ "REVIEWED" \in DOMAIN provenance[LastReviewerRequest]
        /\ assignedForReview[LastReviewerRequest] = {}
        /\ reviewedBy[LastReviewerRequest] = {"m1"}

\* C30: whatever the interleaving of the sweep with the review submission
\* of the last pending reviewer, a request becomes REVIEWED from
\* UNDER_REVIEW only, together with the one REVIEWED timestamp of its log;
\* once it is REVIEWED neither its status nor its log is written again; and
\* every step leaves the request of a finished submission as after the
\* sweep and the submission run one after the other.
SweepAndLastReviewSerialized ==
    [][/\ LastReviewFinished'
       /\ \A r \in RequestIds :
            /\ (statusAvu[r] # {"REVIEWED"} /\ statusAvu'[r] = {"REVIEWED"}) =>
                  /\ statusAvu[r] = {"UNDER_REVIEW"}
                  /\ "REVIEWED" \notin DOMAIN provenance[r]
                  /\ provenance'[r] = LogWith(provenance[r], "REVIEWED", now)
            /\ statusAvu[r] = {"REVIEWED"} =>
                  /\ statusAvu'[r] = {"REVIEWED"}
                  /\ provenance'[r] = provenance[r]]_vars

\* The sweep has set request 2 to REVIEWED while the submission of m1 was
\* under way: m1 is completed and about to set REVIEWED as well.
SweepAndLastReviewSerializedWitness ==
    /\ statusAvu[LastReviewerRequest] = {"REVIEWED"}
    /\ pc["m1"] = "status" /\ local["m1"] = <<LastReviewerRequest, {}>>
    /\ reviewedBy[LastReviewerRequest] = {"m1"}
    /\ provenance[LastReviewerRequest]["REVIEWED"] > endOfReviewPeriod[LastReviewerRequest]

\* What the rows of the status attribute of a request are to be read as.
StatusOfRowsOrError(rows) ==
    IF rows = {} THEN "IN_SUBMISSION"
    ELSE IF \E s \in rows : rows = {s} THEN CHOOSE s \in rows : rows = {s}
    ELSE UUError

\* C31: status_get returns IN_SUBMISSION for a request without a status
\* row, the status of the row when there is one, and raises UUError when
\* there are more; a submission that is not refused leaves the request it
\* writes to, if its status could be read, with exactly one status row.
StatusReadAndSubmitted ==
    [][/\ (ret = <<>> /\ ret' # <<>>) =>
             ret' = <<StatusOfRowsOrError(statusAvu[args'[1]])>>
       /\ \A p \in Principals \ (GROUP_PM \cup GROUP_DM),
             draft_request_id \in {NoRequest} \cup RequestIds :
               (/\ store' # store
                /\ SubmitTarget(draft_request_id) \in RequestIds
                /\ Cardinality(statusAvu[SubmitTarget(draft_request_id)]) <= 1
                /\ \/ Submit(p, draft_request_id, NoRequest)
                   \/ draft_request_id = NoRequest /\ SubmitAnother(p, NoRequest))
               => Cardinality(statusAvu'[SubmitTarget(draft_request_id)]) = 1]_vars

\* Request 1 has two status rows and status_get has raised for it; request
\* 2, submitted since, has one.
StatusReadAndSubmittedWitness ==
    /\ args = <<1>> /\ ret = <<UUError>>
    /\ Cardinality(statusAvu[1]) = 2
    /\ data[2] # NoData /\ Cardinality(statusAvu[2]) = 1

\* A step is a call of api_datarequest_preregistration_confirm for request r
\* whose status write is committed and whose write of the log fails.
ConfirmWriteFailed(r) ==
    /\ ret = <<>> /\ ret' # <<>>
    /\ args' = <<r, ERR_WRITE>>

\* C32: when the write of the provenance log fails after the status write
\* of a transition has been committed, the call returns the write error,
\* the request keeps the new status and the log is as it was before.
ProvenanceFailureReturned ==
    [][\A r \in RequestIds :
          ConfirmWriteFailed(r) =>
              /\ ret' = <<ERR_WRITE>>
              /\ statusAvu'[r] = {"PREREGISTRATION_CONFIRMED"}
              /\ provenance' = provenance]_vars

\* The status is not rolled back and the log is as it was before.
ProvenanceFailureKeepsStatus ==
    [][\A r \in RequestIds :
          ConfirmWriteFailed(r) =>
              /\ statusAvu[r] = {"PREREGISTRATION_SUBMITTED"}
              /\ statusAvu'[r] = {"PREREGISTRATION_CONFIRMED"}
              /\ "PREREGISTRATION_CONFIRMED" \notin DOMAIN provenance'[r]
              /\ provenance' = provenance]_vars

\* The call returns what a call whose write succeeded returns.
ProvenanceFailureNotReturned ==
    [][\A r \in RequestIds : ConfirmWriteFailed(r) => ret' = <<None>>]_vars

NamedAsPrevious(request_id) ==
    {r \in RequestIds : data[r] # NoData /\ data[r].previous_request_id = request_id}

\* C34: the reverse lookup of a resubmission returns a request id only when
\* exactly one request names the queried id as its previous request, and
\* then that request; when more than one does, it returns an error.
ReverseLookupNeedsOneMatch ==
    [][(ret = <<>> /\ ret' # <<>>) =>
          LET matches == NamedAsPrevious(args'[1]) IN
          /\ ret'[1][1] = Returned =>
                /\ Cardinality(matches) = 1
                /\ ret'[1][2] \in matches
          /\ Cardinality(matches) = 1 => ret'[1][1] = Returned
          /\ Cardinality(matches) > 1 => ret'[1] = <<ERR_METADATA_READ, NoRequest>>]_vars

\* Two drafts name the same previous request and the lookup has returned
\* the error.
ReverseLookupNeedsOneMatchWitness ==
    /\ ret = <<<<ERR_METADATA_READ, NoRequest>>>>
    /\ Cardinality(NamedAsPrevious(args[1])) = 2

\* The statuses named in the table of existing documents.
DocumentStatuses ==
    {"DRAFT", "SUBMITTED", "PENDING_ATTACHMENTS", "PRELIMINARY_ACCEPT",
     "PRELIMINARY_REJECT", "PRELIMINARY_RESUBMIT", "DATAMANAGER_ACCEPT",
     "DATAMANAGER_REJECT", "DATAMANAGER_RESUBMIT", "UNDER_REVIEW",
     "REJECTED_AFTER_DATAMANAGER_REVIEW", "RESUBMIT_AFTER_DATAMANAGER_REVIEW",
     "REVIEWED", "APPROVED", "REJECTED", "RESUBMIT", "RESUBMITTED",
     "PREREGISTRATION_SUBMITTED", "PREREGISTRATION_CONFIRMED", "DTA_READY",
     "DTA_SIGNED", "DATA_READY", "DAO_SUBMITTED", "DAO_APPROVED"}

\* Every status of the tables and of the store is a member of status: the
\* ends of every edge, the status of every request, which is the status an
\* operation's check passes at, the destinations of the operations, and the
\* statuses at which a document exists.
StatusesAreMembers ==
    /\ \A i \in DOMAIN status_transitions :
          status_transitions[i][1] \in status /\ status_transitions[i][2] \in status
    /\ \A r \in RequestIds : statusAvu[r] \subseteq status
    /\ \A r \in Existing(Cur) : status_get(Cur, r) \in status
    /\ \A op \in Rows, s \in status : DestinationsRow(op, s) \subseteq status
    /\ DocumentStatuses \subseteq status
    /\ \A t \in type, s \in DocumentStatuses \cup status :
          existing_documents(t, s) # <<>> => s \in status

\* The original count: 27 statuses.
StatusSetOf27 ==
    Cardinality(status) = 27 /\ StatusesAreMembers

\* C35: the statuses are a fixed set of 25 values, and every status that is
\* an end of an edge, the status of a request an operation is called on, a
\* destination of an operation or a status of the table of existing
\* documents is one of them.
StatusSetOf25 ==
    Cardinality(status) = 25 /\ StatusesAreMembers

\* A data access only request has reached DTA_READY: statuses of both paths
\* have been written and read.
StatusSetOf25Witness ==
    \E r \in RequestIds :
        /\ statusAvu[r] = {"DTA_READY"}
        /\ "DAO_APPROVED" \in DOMAIN provenance[r]

\* C36: with the clock going on and the sweep being run again and again, a
\* request that is UNDER_REVIEW gets to REVIEWED, whether the reviewers
\* submit or not and whatever their concurrent submissions leave in the
\* list of pending reviewers.
UnderReviewLeadsToReviewed ==
    \A r \in RequestIds :
        (statusAvu[r] = {"UNDER_REVIEW"}) ~> (statusAvu[r] = {"REVIEWED"})

\* Both reviewers have submitted, one of them is still in the pending list,
\* and the request has been set to REVIEWED after the deadline.
UnderReviewLeadsToReviewedWitness ==
    /\ pc["m1"] = "done" /\ pc["m2"] = "done"
    /\ reviewedBy[1] = {"m1", "m2"}
    /\ assignedForReview[1] # {}
    /\ statusAvu[1] = {"REVIEWED"}
    /\ provenance[1]["REVIEWED"] > endOfReviewPeriod[1]

\* Nobody has begun a review and the request has been set to REVIEWED.
ReviewedWithoutReview ==
    /\ pc["m1"] = "idle" /\ pc["m2"] = "idle"
    /\ reviewedBy[1] = {}
    /\ statusAvu[1] = {"REVIEWED"}

\* Request r can leave its status by a call that is let through: a
\* submission of its owner (no check on the request), the sweep, or an
\* operation whose check passes for some principal and that has a
\* destination one edge away.
WayOut(r) ==
    LET current == status_get(Cur, r) IN
    \/ current \in {"IN_SUBMISSION", "DRAFT"} \cup ResubmitStatuses
    \/ current = "UNDER_REVIEW"
    \/ \E op \in Rows, p \in Principals :
          /\ PermittedRow(op, p, r) = "True"
          /\ \E to \in DestinationsRow(op, current) : status_transition_allowed(current, to)

\* The statuses at which every check refuses every principal.
StuckStatuses == {"DAO_SUBMITTED", "PREREGISTRATION_CONFIRMED"}

\* C37: a request in a status that is not terminal can leave it by an
\* operation whose permission check passes and whose transition is an edge,
\* so that DATA_READY can be reached along the regular path and along the
\* data access only path by such operations alone.
AuthorizedActorsNeverStuck ==
    \A r \in Existing(Cur) :
        status_get(Cur, r) \notin TerminalStatuses \cup {UUError} => WayOut(r)

\* The same holds at every status but DAO_SUBMITTED and
\* PREREGISTRATION_CONFIRMED.
AuthorizedActorsStuckNowhereElse ==
    \A r \in Existing(Cur) :
        status_get(Cur, r) \notin TerminalStatuses \cup StuckStatuses \cup {UUError}
            => WayOut(r)

\* At DAO_SUBMITTED and at PREREGISTRATION_CONFIRMED no check of any
\* operation passes for any principal: every path to DATA_READY goes through
\* one of the two, so DATA_READY is reached only by a call whose check has
\* returned an error.
NoCheckPassesWhereStuck ==
    \A r \in Existing(Cur) :
        status_get(Cur, r) \in StuckStatuses =>
            \A op \in Rows, p \in Principals : PermittedRow(op, p, r) # "True"

\* The form data of request r, which exists, are replaced in this step: the
\* step is a submission that names r as draft_request_id, and the owner of
\* the new form data is its caller.
FormDataReplaced(r) ==
    data[r] # NoData /\ data'[r] # data[r]

ExpectedDraftSubmitChangesOwnDraftOnly ==
    [][\A r \in RequestIds :
          (misuse' = misuse /\ FormDataReplaced(r)) =>
              /\ statusAvu[r] = {"DRAFT"}
              /\ data'[r].owner = data[r].owner]_vars

\* A request under review whose form data have been replaced by m1, who is
\* its owner now.
SubmittedRequestTakenOver ==
    \E r \in RequestIds :
        /\ statusAvu[r] = {"UNDER_REVIEW"}
        /\ data[r].owner = "m1"
        /\ "m1" \in assignedForReview[r]

====
